---- MODULE Spec2Model ----
(***************************************************************************)
(* Model of fs_image's nspawn_in_subvol engine:                            *)
(*   - launch_repo_servers.py: the cross-namespace socket handoff          *)
(*     (_create_sockets_inside_netns and the helper script of              *)
(*     _make_sockets_and_send_via), and the repo-server supervisor         *)
(*     (_launch_repo_server, launch_repo_servers_for_netns);               *)
(*   - cmd.py: the snapshot lifecycle (_snapshot_subvol, _nspawn_setup).   *)
(***************************************************************************)
EXTENDS Integers, Sequences, FiniteSets, TLC

\* ------------------------------------------------------------------ bounds
\* Number of distinct port values the repo_server_ports file may name.
NumPorts == 2
\* Maximal number of whitespace-separated tokens in the repo_server_ports file.
MaxTokens == 2
\* Number of nspawn invocations that run _nspawn_setup.
NumInvocations == 2
\* Maximal number of option fields and host facts that differ from the default.
MaxOverrides == 2
\* Maximal number of variables in the ambient environment.
MaxEnvVars == 2
\* Maximal number of entries in the setenv option.
MaxSetenv == 2
MaxPathLen == 2
MaxArgv == 2

Ports == 1..NumPorts
SockIds == 1..NumPorts
Invocations == 1..NumInvocations

\* ----------------------------------------------------------------- helpers
Range(s) == {s[i] : i \in 1..Len(s)}

Reverse(s) == [i \in 1..Len(s) |-> s[Len(s) + 1 - i]]

Last(s) == s[Len(s)]

Remove(s, e) == SelectSeq(s, LAMBDA x : x # e)

SeqsUpTo(S, n) == UNION {[1..m -> S] : m \in 0..n}

\* The orders in which a Python set may be iterated: every arrangement of
\* its elements without repetition.
Orderings(S) == {s \in [1..Cardinality(S) -> S] : Range(s) = S}

\* --------------------------------------------------------------- variables
VARIABLES
    \* launch_repo_servers_for_netns
    ports_file,         \* tokens of <snapshot_dir>/repo_server_ports
    port_iter,          \* iteration order of the set repo_server_ports
    num_socks,          \* len(repo_server_ports), the size of the batch
    pc,                 \* position of the orchestrator
    exc,                \* exception in flight in the orchestrator
    k,                  \* index of the (socket, port) pair being set up
    stack,              \* ExitStack: bindings whose context was entered
    start_log,          \* bindings in the order their server was spawned
    kill_log,           \* bindings in the order server_proc.kill() ran
    body,               \* the caller's body: none, running, returned, raised
    result,             \* how the supervisor scope ended: none, ok, error
    fail,               \* the setup step that raised: none, bind, spawn, ...
    \* _create_sockets_inside_netns
    list_sock,          \* rendezvous listening endpoint: none, listening, closed
    cli,                \* orchestrator's client socket: none, connected, closed
    attempts,           \* number of recv_fds_from_unix_sock calls
    recvd,              \* descriptors taken from the message
    otimeout,           \* the orchestrator's receive timed out
    repo_server_socks,  \* the list the handoff returned
    handoff,            \* none, returned, error
    helper_reaped,      \* Popen.__exit__ has waited for the helper
    \* the helper script
    hpc,                \* unspawned, start, accept, create, sent, exited
    hcreated,           \* stream sockets the helper created so far
    hrc,                \* exit status of the helper (-1: still running)
    accepts,            \* connections the helper accepted
    csock,              \* helper's accepted connection: none, open, closed
    sent,               \* messages the helper sent, each its descriptor list
    inflight,           \* a message is waiting to be received
    htimeout,           \* a helper-side wait timed out
    \* sockets and servers
    sock_state,         \* per socket: none, open, bound, closed
    sock_port,          \* per socket: the port it is bound to (0: none)
    sock_listen,        \* per socket: SO_ACCEPTCONN
    srv,                \* per binding: none, running, exited, killed, reaped
    srv_fds,            \* per binding: descriptors passed to the server
    died_early,         \* per binding: server exited before listening
    \* _nspawn_setup
    opts,               \* per invocation: [snapshot, snapshot_into]
    spc,                \* per invocation: position in _nspawn_setup
    subvols,            \* subvolumes that exist on disk
    tmp_subvols,        \* per invocation: subvolumes TempSubvolumes created
    nspawn_subvol,      \* per invocation: the subvolume handed to nspawn
    sexc,               \* per invocation: exception in flight
    outcome,            \* per invocation: how the scope ended
    \* new_nspawn_opts and the command builder
    kwargs,             \* the fields passed to new_nspawn_opts
    ctor,               \* new_nspawn_opts: pending, ok, AssertionError
    host,               \* what the builder reads from the host and the layer
    runs,               \* the compositions made so far, in order
    \* _parse_cli_args and maybe_popen_and_inject_fds
    cli_argv,           \* the command line given to _parse_cli_args
    allow_debug_only_opts,
    cli_args,           \* the fields of _NspawnCLIArgs besides opts
    launches,           \* how each composition was launched, in order
    \* temp_repos_steps
    tpc,                \* per invocation: position in temp_repos_steps
    td,                 \* per invocation: the directory mkdtemp made
    tmp_dirs,           \* temporary directories that exist on disk
    texc                \* per invocation: exception in flight

orch_vars == <<ports_file, port_iter, num_socks, pc, exc, k, stack, start_log,
               kill_log, body, result, fail>>
handoff_vars == <<list_sock, cli, attempts, recvd, otimeout, repo_server_socks,
                  handoff, helper_reaped>>
helper_vars == <<hpc, hcreated, hrc, accepts, csock, sent, inflight, htimeout>>
server_vars == <<sock_state, sock_port, sock_listen, srv, srv_fds, died_early>>
repo_vars == <<orch_vars, handoff_vars, helper_vars, server_vars>>
setup_vars == <<opts, spc, subvols, tmp_subvols, nspawn_subvol, sexc, outcome>>
cmd_vars == <<kwargs, ctor, host, runs>>
cli_vars == <<cli_argv, allow_debug_only_opts, cli_args, launches>>
temp_vars == <<tpc, td, tmp_dirs, texc>>
vars == <<repo_vars, setup_vars, cmd_vars, cli_vars, temp_vars>>


\* ------------------------------------------------------------ initial state
\* The state of the repo-server machinery before launch_repo_servers_for_netns
\* is called on a snapshot whose repo_server_ports file holds ports_file.
InitRepo ==
    /\ ports_file \in SeqsUpTo(Ports, MaxTokens)
    /\ port_iter = <<>>
    /\ num_socks = 0
    /\ pc = "read_ports"
    /\ exc = "none"
    /\ k = 0
    /\ stack = <<>>
    /\ start_log = <<>>
    /\ kill_log = <<>>
    /\ body = "none"
    /\ result = "none"
    /\ fail = "none"
    /\ list_sock = "none"
    /\ cli = "none"
    /\ attempts = 0
    /\ recvd = <<>>
    /\ otimeout = FALSE
    /\ repo_server_socks = <<>>
    /\ handoff = "none"
    /\ helper_reaped = FALSE
    /\ hpc = "unspawned"
    /\ hcreated = 0
    /\ hrc = -1
    /\ accepts = 0
    /\ csock = "none"
    /\ sent = <<>>
    /\ inflight = FALSE
    /\ htimeout = FALSE
    /\ sock_state = [s \in SockIds |-> "none"]
    /\ sock_port = [s \in SockIds |-> 0]
    /\ sock_listen = [s \in SockIds |-> FALSE]
    /\ srv = [b \in SockIds |-> "none"]
    /\ srv_fds = [b \in SockIds |-> {}]
    /\ died_early = [b \in SockIds |-> FALSE]

\* ------------------------------------------- launch_repo_servers_for_netns
\* with open(snapshot_dir / 'repo_server_ports') as infile:
\*     repo_server_ports = {int(v) for v in infile.read().split() if v}
\* The set is iterated in one (arbitrary) order; its length is the batch size.
ReadPorts ==
    /\ pc = "read_ports"
    /\ \E order \in Orderings(Range(ports_file)) :
          /\ port_iter' = order
          /\ num_socks' = Len(order)
    /\ pc' = "listen_unix"
    /\ UNCHANGED <<ports_file, exc, k, stack, start_log, kill_log, body, result,
                   fail, handoff_vars, helper_vars, server_vars, setup_vars,
                   cmd_vars, cli_vars, temp_vars>>

\* open() raises: nothing was acquired yet, the error reaches the caller.
ReadPortsFail ==
    /\ pc = "read_ports"
    /\ exc' = "OSError"
    /\ fail' = "read_ports"
    /\ result' = "error"
    /\ pc' = "done"
    /\ UNCHANGED <<ports_file, port_iter, num_socks, k, stack, start_log,
                   kill_log, body, handoff_vars, helper_vars, server_vars,
                   setup_vars,
                   cmd_vars, cli_vars, temp_vars>>

\* -------------------------------------------- _create_sockets_inside_netns
\* with listen_temporary_unix_socket() as (unix_sock_path, list_sock)
listen_temporary_unix_socket ==
    /\ pc = "listen_unix"
    /\ list_sock' = "listening"
    /\ pc' = "popen_helper"
    /\ UNCHANGED <<ports_file, port_iter, num_socks, exc, k, stack, start_log,
                   kill_log, body, result, fail, cli, attempts, recvd, otimeout,
                   repo_server_socks, handoff, helper_reaped, helper_vars,
                   server_vars, setup_vars,
                   cmd_vars, cli_vars, temp_vars>>

\* A handoff that spawns the helper before the rendezvous endpoint listens.
PopenHelperMutant ==
    /\ pc \in {"listen_unix", "popen_helper"}
    /\ hpc' = "start"
    /\ pc' = "connect"
    /\ UNCHANGED <<ports_file, port_iter, num_socks, exc, k, stack, start_log,
                   kill_log, body, result, fail, handoff_vars, hcreated, hrc,
                   accepts, csock, sent, inflight, htimeout, server_vars,
                   setup_vars,
                   cmd_vars, cli_vars, temp_vars>>

\* subprocess.Popen(['sudo', ..., 'nsenter', ...], stdout=list_sock.fileno())
PopenHelper ==
    /\ pc = "popen_helper"
    /\ hpc' = "start"
    /\ pc' = "connect"
    /\ UNCHANGED <<ports_file, port_iter, num_socks, exc, k, stack, start_log,
                   kill_log, body, result, fail, handoff_vars, hcreated, hrc,
                   accepts, csock, sent, inflight, htimeout, server_vars,
                   setup_vars,
                   cmd_vars, cli_vars, temp_vars>>

\* Popen raises (sudo cannot be executed): there is no process to wait for,
\* the listening endpoint is closed and the error propagates.
PopenHelperFail ==
    /\ pc = "popen_helper"
    /\ exc' = "OSError"
    /\ pc' = "close_listen"
    /\ UNCHANGED <<ports_file, port_iter, num_socks, k, stack, start_log,
                   kill_log, body, result, fail, handoff_vars, helper_vars,
                   server_vars, setup_vars,
                   cmd_vars, cli_vars, temp_vars>>

\* recv_fds_from_unix_sock(unix_sock_path, num_socks): connect.  The
\* listening endpoint exists, so the connection is queued at once.
RecvConnect ==
    /\ pc = "connect"
    /\ list_sock = "listening"
    /\ cli' = "connected"
    /\ attempts' = attempts + 1
    /\ pc' = "recvmsg"
    /\ UNCHANGED <<ports_file, port_iter, num_socks, exc, k, stack, start_log,
                   kill_log, body, result, fail, list_sock, recvd, otimeout,
                   repo_server_socks, handoff, helper_reaped, helper_vars,
                   server_vars, setup_vars,
                   cmd_vars, cli_vars, temp_vars>>

\* recv_fds_from_unix_sock: the message arrives.  The kernel installs at most
\* num_socks of the descriptors it carries, possibly fewer (a prefix).
RecvMsg ==
    /\ pc = "recvmsg"
    /\ inflight
    /\ \E n \in 0..Len(Last(sent)) :
          /\ n <= num_socks
          /\ recvd' = SubSeq(Last(sent), 1, n)
    /\ inflight' = FALSE
    /\ cli' = "closed"
    /\ pc' = "make_socks"
    /\ UNCHANGED <<ports_file, port_iter, num_socks, exc, k, stack, start_log,
                   kill_log, body, result, fail, list_sock, attempts, otimeout,
                   repo_server_socks, handoff, helper_reaped, hpc, hcreated,
                   hrc, accepts, csock, sent, htimeout, server_vars,
                   setup_vars,
                   cmd_vars, cli_vars, temp_vars>>

\* recv_fds_from_unix_sock: the helper closed its end without sending; the
\* read returns no data and no descriptors.
RecvEOF ==
    /\ pc = "recvmsg"
    /\ ~inflight
    /\ csock = "closed"
    /\ recvd' = <<>>
    /\ cli' = "closed"
    /\ pc' = "make_socks"
    /\ UNCHANGED <<ports_file, port_iter, num_socks, exc, k, stack, start_log,
                   kill_log, body, result, fail, list_sock, attempts, otimeout,
                   repo_server_socks, handoff, helper_reaped, helper_vars,
                   server_vars, setup_vars,
                   cmd_vars, cli_vars, temp_vars>>

\* recv_fds_from_unix_sock: nothing arrives within FD_UNIX_SOCK_TIMEOUT;
\* socket.timeout is raised inside the `with` of the handoff.
RecvTimeout ==
    /\ pc = "recvmsg"
    /\ ~inflight
    /\ csock # "closed"
    /\ otimeout' = TRUE
    /\ exc' = "timeout"
    /\ cli' = "closed"
    /\ pc' = "wait_helper"
    /\ UNCHANGED <<ports_file, port_iter, num_socks, k, stack, start_log,
                   kill_log, body, result, fail, list_sock, attempts, recvd,
                   repo_server_socks, handoff, helper_reaped, helper_vars,
                   server_vars, setup_vars,
                   cmd_vars, cli_vars, temp_vars>>

\* repo_server_socks = [socket.socket(fileno=fd) for fd in recv_fds...]
MakeSocks ==
    /\ pc = "make_socks"
    /\ repo_server_socks' = recvd
    /\ sock_state' = [s \in SockIds |->
                        IF s \in Range(recvd) THEN "open" ELSE sock_state[s]]
    /\ pc' = "assert_len"
    /\ UNCHANGED <<ports_file, port_iter, num_socks, exc, k, stack, start_log,
                   kill_log, body, result, fail, list_sock, cli, attempts,
                   recvd, otimeout, handoff, helper_reaped, helper_vars,
                   sock_port, sock_listen, srv, srv_fds, died_early,
                   setup_vars,
                   cmd_vars, cli_vars, temp_vars>>

\* The handoff without its assertion on the number of descriptors.
AssertLenMutant ==
    /\ pc = "assert_len"
    /\ pc' = "wait_helper"
    /\ UNCHANGED <<ports_file, port_iter, num_socks, exc, k, stack, start_log,
                   kill_log, body, result, fail, handoff_vars, helper_vars,
                   server_vars, setup_vars,
                   cmd_vars, cli_vars, temp_vars>>

\* assert len(repo_server_socks) == num_socks, len(repo_server_socks)
AssertLen ==
    /\ pc = "assert_len"
    /\ exc' = IF Len(repo_server_socks) = num_socks
              THEN exc ELSE "AssertionError"
    /\ pc' = "wait_helper"
    /\ UNCHANGED <<ports_file, port_iter, num_socks, k, stack, start_log,
                   kill_log, body, result, fail, handoff_vars, helper_vars,
                   server_vars, setup_vars,
                   cmd_vars, cli_vars, temp_vars>>

\* Leaving `with ... subprocess.Popen(...) as sock_proc`: Popen.__exit__
\* waits for the helper to exit, on the normal and on the exception path.
WaitHelper ==
    /\ pc = "wait_helper"
    /\ hpc = "exited"
    /\ helper_reaped' = TRUE
    /\ pc' = "close_listen"
    /\ UNCHANGED <<ports_file, port_iter, num_socks, exc, k, stack, start_log,
                   kill_log, body, result, fail, list_sock, cli, attempts,
                   recvd, otimeout, repo_server_socks, handoff, helper_vars,
                   server_vars, setup_vars,
                   cmd_vars, cli_vars, temp_vars>>

\* A handoff that leaves the rendezvous endpoint open.
CloseListenMutant ==
    /\ pc = "close_listen"
    /\ IF exc = "none"
       THEN /\ pc' = "check_rc"
            /\ UNCHANGED <<handoff, fail, repo_server_socks>>
       ELSE /\ handoff' = "error"
            /\ fail' = "handoff"
            /\ repo_server_socks' = <<>>
            /\ pc' = "unwind"
    /\ UNCHANGED <<ports_file, port_iter, num_socks, exc, k, stack, start_log,
                   kill_log, body, result, list_sock, cli, attempts, recvd,
                   otimeout, helper_reaped, helper_vars, server_vars,
                   setup_vars, cmd_vars, cli_vars, temp_vars>>

\* Leaving `with listen_temporary_unix_socket()`: the rendezvous endpoint is
\* closed.  An exception in flight now leaves _create_sockets_inside_netns
\* and, there being no server yet, launch_repo_servers_for_netns.
CloseListen ==
    /\ pc = "close_listen"
    /\ list_sock' = "closed"
    /\ IF exc = "none"
       THEN /\ pc' = "check_rc"
            /\ UNCHANGED <<handoff, fail, repo_server_socks>>
       ELSE /\ handoff' = "error"
            /\ fail' = "handoff"
            /\ repo_server_socks' = <<>>
            /\ pc' = "unwind"
    /\ UNCHANGED <<ports_file, port_iter, num_socks, exc, k, stack, start_log,
                   kill_log, body, result, cli, attempts, recvd, otimeout,
                   helper_reaped, helper_vars, server_vars, setup_vars,
                   cmd_vars, cli_vars, temp_vars>>

\* check_popen_returncode(proc): raises CalledProcessError unless the
\* process exited with status 0.
check_popen_returncode(rc) == rc = 0

\* A handoff that returns the sockets whatever the helper's exit status.
CheckReturncodeMutant ==
    /\ pc = "check_rc"
    /\ handoff' = "returned"
    /\ k' = 1
    /\ body' = IF num_socks = 0 THEN "running" ELSE body
    /\ pc' = IF num_socks = 0 THEN "body" ELSE "bind"
    /\ UNCHANGED <<ports_file, port_iter, num_socks, exc, stack, start_log,
                   kill_log, result, fail, list_sock, cli, attempts, recvd,
                   otimeout, repo_server_socks, helper_reaped, helper_vars,
                   server_vars, setup_vars,
                   cmd_vars, cli_vars, temp_vars>>

\* check_popen_returncode(sock_proc); return repo_server_socks
CheckReturncode ==
    /\ pc = "check_rc"
    /\ IF check_popen_returncode(hrc)
       THEN /\ handoff' = "returned"
            /\ k' = 1
            /\ body' = IF num_socks = 0 THEN "running" ELSE body
            /\ pc' = IF num_socks = 0 THEN "body" ELSE "bind"
            /\ UNCHANGED <<exc, fail, repo_server_socks>>
       ELSE /\ handoff' = "error"
            /\ exc' = "CalledProcessError"
            /\ fail' = "handoff"
            /\ repo_server_socks' = <<>>
            /\ pc' = "unwind"
            /\ UNCHANGED <<k, body>>
    /\ UNCHANGED <<ports_file, port_iter, num_socks, stack, start_log,
                   kill_log, result, list_sock, cli, attempts, recvd, otimeout,
                   helper_reaped, helper_vars, server_vars, setup_vars,
                   cmd_vars, cli_vars, temp_vars>>


\* ------------------------------ the helper of _make_sockets_and_send_via
\* sudo / env / nsenter fail before the script runs: the helper exits
\* with a non-zero status without touching the rendezvous endpoint.
HelperStartFail ==
    /\ hpc = "start"
    /\ hpc' = "exited"
    /\ hrc' = 1
    /\ UNCHANGED <<orch_vars, handoff_vars, hcreated, accepts, csock, sent,
                   inflight, htimeout, server_vars, setup_vars,
                   cmd_vars, cli_vars, temp_vars>>

\* lsock = socket.socket(fileno=1); lsock.settimeout(FD_UNIX_SOCK_TIMEOUT)
HelperStart ==
    /\ hpc = "start"
    /\ hpc' = "accept"
    /\ UNCHANGED <<orch_vars, handoff_vars, hcreated, hrc, accepts, csock, sent,
                   inflight, htimeout, server_vars, setup_vars,
                   cmd_vars, cli_vars, temp_vars>>

\* csock = lsock.accept()[0]; csock.settimeout(FD_UNIX_SOCK_TIMEOUT)
\* A queued connection is accepted even if its client has gone since.
HelperAccept ==
    /\ hpc = "accept"
    /\ cli # "none"
    /\ accepts' = accepts + 1
    /\ csock' = "open"
    /\ hpc' = "create"
    /\ UNCHANGED <<orch_vars, handoff_vars, hcreated, hrc, sent, inflight,
                   htimeout, server_vars, setup_vars,
                   cmd_vars, cli_vars, temp_vars>>

\* lsock.accept() raises socket.timeout: nobody connected in time.
HelperAcceptTimeout ==
    /\ hpc = "accept"
    /\ cli = "none"
    /\ htimeout' = TRUE
    /\ hpc' = "exited"
    /\ hrc' = 1
    /\ UNCHANGED <<orch_vars, handoff_vars, hcreated, accepts, csock, sent,
                   inflight, server_vars, setup_vars,
                   cmd_vars, cli_vars, temp_vars>>

\* One round of the list comprehension:
\* stack.enter_context(socket.socket(AF_INET, SOCK_STREAM)).fileno()
HelperCreateSocket ==
    /\ hpc = "create"
    /\ hcreated < num_socks
    /\ hcreated' = hcreated + 1
    /\ UNCHANGED <<orch_vars, handoff_vars, hpc, hrc, accepts, csock, sent,
                   inflight, htimeout, server_vars, setup_vars,
                   cmd_vars, cli_vars, temp_vars>>

\* socket.socket() raises (EMFILE, ...): the ExitStack closes csock and the
\* sockets made so far, nothing is sent, the helper exits non-zero.
HelperCreateSocketFail ==
    /\ hpc = "create"
    /\ hcreated < num_socks
    /\ csock' = "closed"
    /\ hpc' = "exited"
    /\ hrc' = 1
    /\ UNCHANGED <<orch_vars, handoff_vars, hcreated, accepts, sent, inflight,
                   htimeout, server_vars, setup_vars,
                   cmd_vars, cli_vars, temp_vars>>

\* A helper that leaves the last socket out of the message.
HelperFdsMutant(n) == [i \in 1..(IF n > 0 THEN n - 1 ELSE 0) |-> i]

\* The descriptor list send_fds is called with once the comprehension is
\* complete: the descriptors of all the sockets created.
HelperFds(n) == [i \in 1..n |-> i]

\* send_fds(csock, b'ohai', [...]): one sendmsg carrying every descriptor.
HelperSend ==
    /\ hpc = "create"
    /\ hcreated = num_socks
    /\ cli = "connected"
    /\ sent' = Append(sent, HelperFds(hcreated))
    /\ inflight' = TRUE
    /\ hpc' = "sent"
    /\ UNCHANGED <<orch_vars, handoff_vars, hcreated, hrc, accepts, csock,
                   htimeout, server_vars, setup_vars,
                   cmd_vars, cli_vars, temp_vars>>

\* sendmsg raises BrokenPipeError: the orchestrator gave up and closed its
\* end before the message left.
HelperSendBrokenPipe ==
    /\ hpc = "create"
    /\ hcreated = num_socks
    /\ cli = "closed"
    /\ csock' = "closed"
    /\ hpc' = "exited"
    /\ hrc' = 1
    /\ UNCHANGED <<orch_vars, handoff_vars, hcreated, accepts, sent, inflight,
                   htimeout, server_vars, setup_vars,
                   cmd_vars, cli_vars, temp_vars>>

\* A helper that swallows the timeout of its send and exits with status 0.
HelperSendTimeoutMutant ==
    /\ hpc = "create"
    /\ hcreated = num_socks
    /\ cli = "connected"
    /\ htimeout' = TRUE
    /\ csock' = "closed"
    /\ hpc' = "exited"
    /\ hrc' = 0
    /\ UNCHANGED <<orch_vars, handoff_vars, hcreated, accepts, sent, inflight,
                   server_vars, setup_vars,
                   cmd_vars, cli_vars, temp_vars>>

\* sendmsg raises socket.timeout (csock.settimeout): nothing is sent.
HelperSendTimeout ==
    /\ hpc = "create"
    /\ hcreated = num_socks
    /\ cli = "connected"
    /\ htimeout' = TRUE
    /\ csock' = "closed"
    /\ hpc' = "exited"
    /\ hrc' = 1
    /\ UNCHANGED <<orch_vars, handoff_vars, hcreated, accepts, sent, inflight,
                   server_vars, setup_vars,
                   cmd_vars, cli_vars, temp_vars>>

\* After sendmsg: `assert len(msg) == num_sent`, the ExitStack closes csock,
\* lsock and the helper's copies of the sockets, and the process exits with
\* status 0, or non-zero if the assertion or the interpreter's exit fails.
HelperExit ==
    /\ hpc = "sent"
    /\ csock' = "closed"
    /\ hpc' = "exited"
    /\ \E rc \in {0, 1} : hrc' = rc
    /\ UNCHANGED <<orch_vars, handoff_vars, hcreated, accepts, sent, inflight,
                   htimeout, server_vars, setup_vars,
                   cmd_vars, cli_vars, temp_vars>>


\* ------------------------------------------- launch_repo_servers_for_netns
\* A loop that hands the first socket to every server.
ZipSockMutant(i) == repo_server_socks[1]

\* for sock, port in zip(_create_sockets_inside_netns(...), repo_server_ports)
\* The socket and the port of the i-th pair.
ZipSock(i) == repo_server_socks[i]

\* A loop that binds every socket to the first port.
ZipPortMutant(i) == port_iter[1]

ZipPort(i) == port_iter[i]

\* A loop that starts the server on a socket it did not bind.
BindMutant ==
    /\ pc = "bind"
    /\ pc' = "spawn"
    /\ UNCHANGED <<ports_file, port_iter, num_socks, exc, k, stack, start_log,
                   kill_log, body, result, fail, handoff_vars, helper_vars,
                   server_vars, setup_vars,
                   cmd_vars, cli_vars, temp_vars>>

\* sock.bind(('127.0.0.1', port))
Bind ==
    /\ pc = "bind"
    /\ sock_state' = [sock_state EXCEPT ![ZipSock(k)] = "bound"]
    /\ sock_port' = [sock_port EXCEPT ![ZipSock(k)] = ZipPort(k)]
    /\ pc' = "spawn"
    /\ UNCHANGED <<ports_file, port_iter, num_socks, exc, k, stack, start_log,
                   kill_log, body, result, fail, handoff_vars, helper_vars,
                   sock_listen, srv, srv_fds, died_early, setup_vars,
                   cmd_vars, cli_vars, temp_vars>>

\* sock.bind raises (EADDRINUSE, ...): the ExitStack unwinds.
BindFail ==
    /\ pc = "bind"
    /\ exc' = "OSError"
    /\ fail' = "bind"
    /\ pc' = "unwind"
    /\ UNCHANGED <<ports_file, port_iter, num_socks, k, stack, start_log,
                   kill_log, body, result, handoff_vars, helper_vars,
                   server_vars, setup_vars,
                   cmd_vars, cli_vars, temp_vars>>

\* ----------------------------------------------------- _launch_repo_server
\* with sock, subprocess.Popen([repo_server_bin, '--socket-fd', ...],
\*                             pass_fds=[sock.fileno()]) as server_proc:
\* The child gets the one descriptor of pass_fds (close_fds is the default).
PopenServer ==
    /\ pc = "spawn"
    /\ srv' = [srv EXCEPT ![k] = "running"]
    /\ srv_fds' = [srv_fds EXCEPT ![k] = {ZipSock(k)}]
    /\ start_log' = Append(start_log, k)
    /\ pc' = "poll"
    /\ UNCHANGED <<ports_file, port_iter, num_socks, exc, k, stack, kill_log,
                   body, result, fail, handoff_vars, helper_vars, sock_state,
                   sock_port, sock_listen, died_early, setup_vars,
                   cmd_vars, cli_vars, temp_vars>>

\* Popen raises: `with sock` closes the socket, the error leaves the
\* context manager before it yields, the ExitStack unwinds.
PopenServerFail ==
    /\ pc = "spawn"
    /\ sock_state' = [sock_state EXCEPT ![ZipSock(k)] = "closed"]
    /\ exc' = "OSError"
    /\ fail' = "spawn"
    /\ pc' = "unwind"
    /\ UNCHANGED <<ports_file, port_iter, num_socks, k, stack, start_log,
                   kill_log, body, result, handoff_vars, helper_vars,
                   sock_port, sock_listen, srv, srv_fds, died_early,
                   setup_vars,
                   cmd_vars, cli_vars, temp_vars>>

\* while server_proc.poll() is None:
PollServerMutant ==
    /\ pc = "poll"
    /\ pc' = "getsockopt"
    /\ UNCHANGED <<ports_file, port_iter, num_socks, exc, k, stack, start_log,
                   kill_log, body, result, fail, handoff_vars, helper_vars,
                   server_vars, setup_vars,
                   cmd_vars, cli_vars, temp_vars>>

PollServer ==
    /\ pc = "poll"
    /\ pc' = IF srv[k] = "running" THEN "getsockopt" ELSE "yield"
    /\ UNCHANGED <<ports_file, port_iter, num_socks, exc, k, stack, start_log,
                   kill_log, body, result, fail, handoff_vars, helper_vars,
                   server_vars, setup_vars,
                   cmd_vars, cli_vars, temp_vars>>

\*     if sock.getsockopt(SOL_SOCKET, SO_ACCEPTCONN): break
GetSockOpt ==
    /\ pc = "getsockopt"
    /\ pc' = IF sock_listen[ZipSock(k)] THEN "yield" ELSE "sleep"
    /\ UNCHANGED <<ports_file, port_iter, num_socks, exc, k, stack, start_log,
                   kill_log, body, result, fail, handoff_vars, helper_vars,
                   server_vars, setup_vars,
                   cmd_vars, cli_vars, temp_vars>>

\*     time.sleep(0.1)
Sleep ==
    /\ pc = "sleep"
    /\ pc' = "poll"
    /\ UNCHANGED <<ports_file, port_iter, num_socks, exc, k, stack, start_log,
                   kill_log, body, result, fail, handoff_vars, helper_vars,
                   server_vars, setup_vars,
                   cmd_vars, cli_vars, temp_vars>>

\* The sleep is interrupted (KeyboardInterrupt): `finally` kills the server
\* of this binding, then the ExitStack unwinds the earlier ones.  The
\* binding is released first, as if it were the top of the stack.
SleepInterrupted ==
    /\ pc = "sleep"
    /\ exc' = "KeyboardInterrupt"
    /\ fail' = "interrupt"
    /\ stack' = Append(stack, k)
    /\ pc' = "unwind"
    /\ UNCHANGED <<ports_file, port_iter, num_socks, k, start_log, kill_log,
                   body, result, handoff_vars, helper_vars, server_vars,
                   setup_vars,
                   cmd_vars, cli_vars, temp_vars>>

\* `yield` of _launch_repo_server: stack.enter_context returns, the binding
\* is on the ExitStack; log.info; the loop goes on to the next pair, or,
\* after the last one, launch_repo_servers_for_netns yields to its caller.
EnterContext ==
    /\ pc = "yield"
    /\ stack' = Append(stack, k)
    /\ IF k < num_socks
       THEN /\ k' = k + 1
            /\ pc' = "bind"
            /\ UNCHANGED body
       ELSE /\ pc' = "body"
            /\ body' = "running"
            /\ UNCHANGED k
    /\ UNCHANGED <<ports_file, port_iter, num_socks, exc, start_log, kill_log,
                   result, fail, handoff_vars, helper_vars, server_vars,
                   setup_vars,
                   cmd_vars, cli_vars, temp_vars>>

\* The caller's `with` body ends normally.
BodyReturn ==
    /\ pc = "body"
    /\ body' = "returned"
    /\ pc' = "unwind"
    /\ UNCHANGED <<ports_file, port_iter, num_socks, exc, k, stack, start_log,
                   kill_log, result, fail, handoff_vars, helper_vars,
                   server_vars, setup_vars,
                   cmd_vars, cli_vars, temp_vars>>

\* The caller's `with` body raises; the exception is thrown in at the yield.
BodyRaise ==
    /\ pc = "body"
    /\ body' = "raised"
    /\ exc' = "BodyError"
    /\ pc' = "unwind"
    /\ UNCHANGED <<ports_file, port_iter, num_socks, k, stack, start_log,
                   kill_log, result, fail, handoff_vars, helper_vars,
                   server_vars, setup_vars,
                   cmd_vars, cli_vars, temp_vars>>

\* A cleanup that releases the bindings in the order they were entered.
UnwindNextMutant == stack[1]

\* The binding ExitStack.__exit__ releases next: the last one entered.
UnwindNext == Last(stack)

\* finally: server_proc.kill()  -- a no-op for a process that has exited.
KillServer ==
    /\ pc = "unwind"
    /\ stack # <<>>
    /\ kill_log' = Append(kill_log, UnwindNext)
    /\ srv' = [srv EXCEPT ![UnwindNext] =
                  IF @ = "running" THEN "killed" ELSE @]
    /\ pc' = "unwind_wait"
    /\ UNCHANGED <<ports_file, port_iter, num_socks, exc, k, stack, start_log,
                   body, result, fail, handoff_vars, helper_vars, sock_state,
                   sock_port, sock_listen, srv_fds, died_early, setup_vars,
                   cmd_vars, cli_vars, temp_vars>>

\* A cleanup that does not wait for the server it killed.
WaitServerMutant ==
    /\ pc = "unwind_wait"
    /\ pc' = "unwind_close"
    /\ UNCHANGED <<ports_file, port_iter, num_socks, exc, k, stack, start_log,
                   kill_log, body, result, fail, handoff_vars, helper_vars,
                   server_vars, setup_vars,
                   cmd_vars, cli_vars, temp_vars>>

\* Popen.__exit__ of server_proc: wait() reaps the process.
WaitServer ==
    /\ pc = "unwind_wait"
    /\ srv[UnwindNext] \in {"killed", "exited"}
    /\ srv' = [srv EXCEPT ![UnwindNext] = "reaped"]
    /\ pc' = "unwind_close"
    /\ UNCHANGED <<ports_file, port_iter, num_socks, exc, k, stack, start_log,
                   kill_log, body, result, fail, handoff_vars, helper_vars,
                   sock_state, sock_port, sock_listen, srv_fds, died_early,
                   setup_vars,
                   cmd_vars, cli_vars, temp_vars>>

\* sock.__exit__ closes the orchestrator's socket; the binding is released.
CloseSock ==
    /\ pc = "unwind_close"
    /\ sock_state' = [sock_state EXCEPT ![ZipSock(UnwindNext)] = "closed"]
    /\ stack' = Remove(stack, UnwindNext)
    /\ pc' = "unwind"
    /\ UNCHANGED <<ports_file, port_iter, num_socks, exc, k, start_log,
                   kill_log, body, result, fail, handoff_vars, helper_vars,
                   sock_port, sock_listen, srv, srv_fds, died_early,
                   setup_vars,
                   cmd_vars, cli_vars, temp_vars>>

\* ExitStack.__exit__ has nothing left: the scope is left, with the
\* exception in flight if there is one.
LeaveScope ==
    /\ pc = "unwind"
    /\ stack = <<>>
    /\ result' = IF exc = "none" THEN "ok" ELSE "error"
    /\ pc' = "done"
    /\ UNCHANGED <<ports_file, port_iter, num_socks, exc, k, stack, start_log,
                   kill_log, body, fail, handoff_vars, helper_vars,
                   server_vars, setup_vars,
                   cmd_vars, cli_vars, temp_vars>>

\* ------------------------------------------------ the repo-server process
\* The server calls listen() on the socket it was given.
ServerListen(b) ==
    /\ srv[b] = "running"
    /\ \E s \in srv_fds[b] :
          /\ ~sock_listen[s]
          /\ sock_listen' = [sock_listen EXCEPT ![s] = TRUE]
    /\ UNCHANGED <<orch_vars, handoff_vars, helper_vars, sock_state, sock_port,
                   srv, srv_fds, died_early, setup_vars,
                   cmd_vars, cli_vars, temp_vars>>

\* The server exits on its own (crash, bad arguments, ...).
ServerExit(b) ==
    /\ srv[b] = "running"
    /\ srv' = [srv EXCEPT ![b] = "exited"]
    /\ died_early' = [died_early EXCEPT ![b] =
                         \A s \in srv_fds[b] : ~sock_listen[s]]
    /\ UNCHANGED <<orch_vars, handoff_vars, helper_vars, sock_state, sock_port,
                   sock_listen, srv_fds, setup_vars,
                   cmd_vars, cli_vars, temp_vars>>


\* ----------------------------------------------------------- _nspawn_setup
\* The subvolume TempSubvolumes.snapshot creates for an invocation: each
\* TempSubvolumes instance works in a fresh temporary directory of its own.
TmpPath(i) == <<"tmp", i>>

\* The destination of --snapshot-into, a path that does not exist yet.
IntoPath(i) == <<"into", i>>

\* The layer every invocation runs against.
Layer == <<"layer">>

\* new_nspawn_opts:
\* assert not opts.debug_only_opts.snapshot_into or opts.snapshot
ValidOpts == {o \in [snapshot : BOOLEAN, snapshot_into : BOOLEAN] :
                 ~o.snapshot_into \/ o.snapshot}

InitSetup ==
    /\ opts \in [Invocations -> ValidOpts]
    /\ spc = [i \in Invocations |-> "unstarted"]
    /\ subvols = {Layer}
    /\ tmp_subvols = [i \in Invocations |-> {}]
    /\ nspawn_subvol = [i \in Invocations |-> <<>>]
    /\ sexc = [i \in Invocations |-> "none"]
    /\ outcome = [i \in Invocations |-> "none"]

\* with (_snapshot_subvol(opts.layer, opts.debug_only_opts.snapshot_into)
\*       if opts.snapshot else nullcontext(opts.layer)) as nspawn_subvol:
\* and the head of _snapshot_subvol: `if snapshot_into:` ... `else:
\* with TempSubvolumes() as tmp_subvols:`
SetupEnterMutant(i) ==
    /\ spc[i] = "unstarted"
    /\ spc' = [spc EXCEPT ![i] =
                  IF opts[i].snapshot_into
                  THEN "snapshot_into" ELSE "tmp_snapshot"]
    /\ UNCHANGED <<repo_vars, cmd_vars, cli_vars, temp_vars, opts, subvols, tmp_subvols,
                   nspawn_subvol, sexc, outcome>>

SetupEnter(i) ==
    /\ spc[i] = "unstarted"
    /\ IF ~opts[i].snapshot
       THEN /\ nspawn_subvol' = [nspawn_subvol EXCEPT ![i] = Layer]
            /\ spc' = [spc EXCEPT ![i] = "build_args"]
       ELSE /\ spc' = [spc EXCEPT ![i] =
                          IF opts[i].snapshot_into
                          THEN "snapshot_into" ELSE "tmp_snapshot"]
            /\ UNCHANGED nspawn_subvol
    /\ UNCHANGED <<repo_vars, cmd_vars, cli_vars, temp_vars, opts, subvols, tmp_subvols, sexc, outcome>>

\* nspawn_subvol = Subvol(snapshot_into); nspawn_subvol.snapshot(src_subvol)
SnapshotInto(i) ==
    /\ spc[i] = "snapshot_into"
    /\ subvols' = subvols \cup {IntoPath(i)}
    /\ nspawn_subvol' = [nspawn_subvol EXCEPT ![i] = IntoPath(i)]
    /\ spc' = [spc EXCEPT ![i] = "clone_mounts"]
    /\ UNCHANGED <<repo_vars, cmd_vars, cli_vars, temp_vars, opts, tmp_subvols, sexc, outcome>>

\* A scratch snapshot placed by its name alone, which is derived from the
\* layer and so is the same for every invocation.
TmpSnapshotMutant(i) ==
    /\ spc[i] = "tmp_snapshot"
    /\ subvols' = subvols \cup {TmpPath(1)}
    /\ tmp_subvols' = [tmp_subvols EXCEPT ![i] = @ \cup {TmpPath(1)}]
    /\ nspawn_subvol' = [nspawn_subvol EXCEPT ![i] = TmpPath(1)]
    /\ spc' = [spc EXCEPT ![i] = "clone_mounts"]
    /\ UNCHANGED <<repo_vars, cmd_vars, cli_vars, temp_vars, opts, sexc, outcome>>

\* nspawn_subvol = tmp_subvols.snapshot(src_subvol, tmp_name)
TmpSnapshot(i) ==
    /\ spc[i] = "tmp_snapshot"
    /\ subvols' = subvols \cup {TmpPath(i)}
    /\ tmp_subvols' = [tmp_subvols EXCEPT ![i] = @ \cup {TmpPath(i)}]
    /\ nspawn_subvol' = [nspawn_subvol EXCEPT ![i] = TmpPath(i)]
    /\ spc' = [spc EXCEPT ![i] = "clone_mounts"]
    /\ UNCHANGED <<repo_vars, cmd_vars, cli_vars, temp_vars, opts, sexc, outcome>>

\* An ephemeral branch that yields outside the `with TempSubvolumes()`.
AfterYieldMutant(i) == "leave"

\* Where control goes when _snapshot_subvol's body ends or an exception is
\* raised in, or thrown into, it: through TempSubvolumes.__exit__ in the
\* ephemeral branch, straight out of the generator otherwise.
AfterYield(i) ==
    IF opts[i].snapshot /\ ~opts[i].snapshot_into THEN "tmp_exit" ELSE "leave"

\* The snapshot call raises: no subvolume was made.
SnapshotFail(i) ==
    /\ spc[i] \in {"snapshot_into", "tmp_snapshot"}
    /\ sexc' = [sexc EXCEPT ![i] = "SnapshotError"]
    /\ spc' = [spc EXCEPT ![i] = AfterYield(i)]
    /\ UNCHANGED <<repo_vars, cmd_vars, cli_vars, temp_vars, opts, subvols, tmp_subvols, nspawn_subvol,
                   outcome>>

\* A clone_mounts after which the generator does not yield to
\* _nspawn_setup: the container is started without a composed command.
CloneMountsMutant(i) ==
    /\ spc[i] = "clone_mounts"
    /\ spc' = [spc EXCEPT ![i] = "running"]
    /\ UNCHANGED <<repo_vars, cmd_vars, cli_vars, temp_vars, opts, subvols, tmp_subvols,
                   nspawn_subvol, sexc, outcome>>

\* clone_mounts(src_subvol, nspawn_subvol); yield nspawn_subvol
CloneMounts(i) ==
    /\ spc[i] = "clone_mounts"
    /\ spc' = [spc EXCEPT ![i] = "build_args"]
    /\ UNCHANGED <<repo_vars, cmd_vars, cli_vars, temp_vars, opts, subvols, tmp_subvols, nspawn_subvol, sexc,
                   outcome>>

\* clone_mounts raises.
CloneMountsFail(i) ==
    /\ spc[i] = "clone_mounts"
    /\ sexc' = [sexc EXCEPT ![i] = "SnapshotError"]
    /\ spc' = [spc EXCEPT ![i] = AfterYield(i)]
    /\ UNCHANGED <<repo_vars, cmd_vars, cli_vars, temp_vars, opts, subvols, tmp_subvols, nspawn_subvol,
                   outcome>>

\* nspawn_args, cmd_env = _extra_nspawn_args_and_env(opts)
\* yield _NspawnSetup(subvol=nspawn_subvol, nspawn_cmd=..., ...)
BuildArgs(i) ==
    /\ spc[i] = "build_args"
    /\ spc' = [spc EXCEPT ![i] = "running"]
    /\ UNCHANGED <<repo_vars, cmd_vars, cli_vars, temp_vars, opts, subvols, tmp_subvols, nspawn_subvol, sexc,
                   outcome>>

\* Composing the command line raises (the layer's metadata cannot be read,
\* the repo root cannot be found).
BuildArgsFail(i) ==
    /\ spc[i] = "build_args"
    /\ sexc' = [sexc EXCEPT ![i] = "BuildError"]
    /\ spc' = [spc EXCEPT ![i] = AfterYield(i)]
    /\ UNCHANGED <<repo_vars, cmd_vars, cli_vars, temp_vars, opts, subvols, tmp_subvols, nspawn_subvol,
                   outcome>>

\* The caller's body (it runs the container) ends: normally, with the
\* command's non-zero exit reported, or with an exception or cancellation
\* thrown in at the yield.
BodyEnd(i) ==
    /\ spc[i] = "running"
    /\ \E how \in {"completed", "command_failed", "exception", "cancelled"} :
          /\ outcome' = [outcome EXCEPT ![i] = how]
          /\ sexc' = [sexc EXCEPT ![i] =
                         IF how \in {"exception", "cancelled"} THEN how ELSE @]
    /\ spc' = [spc EXCEPT ![i] = AfterYield(i)]
    /\ UNCHANGED <<repo_vars, cmd_vars, cli_vars, temp_vars, opts, subvols, tmp_subvols, nspawn_subvol>>

\* TempSubvolumes.__exit__: every subvolume the instance created is deleted.
TempSubvolumesExit(i) ==
    /\ spc[i] = "tmp_exit"
    /\ subvols' = subvols \ tmp_subvols[i]
    /\ tmp_subvols' = [tmp_subvols EXCEPT ![i] = {}]
    /\ spc' = [spc EXCEPT ![i] = "leave"]
    /\ UNCHANGED <<repo_vars, cmd_vars, cli_vars, temp_vars, opts, nspawn_subvol, sexc, outcome>>

\* A teardown that deletes whatever subvolume the container ran in.
SetupLeaveMutant(i) ==
    /\ spc[i] = "leave"
    /\ subvols' = subvols \ ({nspawn_subvol[i]} \ {Layer})
    /\ outcome' = [outcome EXCEPT ![i] = IF @ = "none" THEN "failed" ELSE @]
    /\ spc' = [spc EXCEPT ![i] = "released"]
    /\ UNCHANGED <<repo_vars, cmd_vars, cli_vars, temp_vars, opts, tmp_subvols, nspawn_subvol, sexc>>

\* The generator of _nspawn_setup ends; the scoped execution has been left.
SetupLeave(i) ==
    /\ spc[i] = "leave"
    /\ outcome' = [outcome EXCEPT ![i] = IF @ = "none" THEN "failed" ELSE @]
    /\ spc' = [spc EXCEPT ![i] = "released"]
    /\ UNCHANGED <<repo_vars, cmd_vars, cli_vars, temp_vars, opts, subvols, tmp_subvols, nspawn_subvol, sexc>>

\* ------------------------------------------------- args.py: the option sets

\* A string is a sequence of tokens; ":" and "\\" are always tokens of their
\* own, and an environment-variable name is cut after each "_" of the
\* prefixes the code tests for.  None and the empty string are both <<>>.
None == <<>>

StartsWith(s, p) == Len(p) <= Len(s) /\ SubSeq(s, 1, Len(p)) = p

\* str() of the integers that occur.
Str(n) == IF n = 0 THEN "0" ELSE "65534"

NOBODY_USER == [pw_name |-> "nobody", pw_uid |-> 65534, pw_gid |-> 65534]

ROOT_USER == [pw_name |-> "root", pw_uid |-> 0, pw_gid |-> 0]

LayerPath == <<"/layer">>

IntoSubvolPath == <<"/into">>

TmpSubvolPath == <<"/tmp/", "layer">>

RepoRoot == <<"/repo">>

RepoLink == <<"/link">>

\* (src, dest) pairs for --bindmount-ro / --bindmount-rw.
PlainMount == << <<"/a">>, <<"/b">> >>

QuotedMount == << <<"/a", ":", "b">>, <<"\\", "c">> >>

\* An entry that is not a pair.
MalformedMount == << <<"/a">> >>

NspawnDebugOnlyNotForProdOpts ==
    [forward_tls_env |-> FALSE,
     logs_tmpfs |-> TRUE,
     snapshot_into |-> None,
     cap_net_admin |-> FALSE,
     private_network |-> TRUE,
     debug |-> FALSE]

\* The defaults of _NspawnOpts; cmd has none and is always passed.
NspawnOpts(cmd) ==
    [cmd |-> cmd,
     layer |-> LayerPath,
     bind_repo_ro |-> FALSE,
     bindmount_ro |-> <<>>,
     bindmount_rw |-> <<>>,
     forward_fd |-> <<>>,
     hostname |-> None,
     quiet |-> FALSE,
     setenv |-> <<>>,
     snapshot |-> TRUE,
     user |-> NOBODY_USER,
     debug_only_opts |-> NspawnDebugOnlyNotForProdOpts,
     allow_mknod |-> FALSE]

\* _NspawnCLIArgs without opts, before any parse.
NoCliArgs ==
    [boot |-> FALSE, append_boot_console |-> None, serve_rpm_snapshots |-> <<>>]

\* What the builder reads besides its argument.
DefaultHost ==
    [environ |-> << <<<<"HOME">>, "/x">> >>,
     dev_fuse |-> FALSE,
     os_release |-> {"/usr/lib/os-release"},
     may_require_repo |-> "0",
     repo_symlink |-> FALSE]

\* Keyword arguments that differ from the default.
OptTags ==
    {"cmd_empty", "bind_repo_ro", "bindmount_ro", "bindmount_ro_quoted",
     "bindmount_ro_malformed",
     "bindmount_rw", "bindmount_rw_quoted", "forward_fd", "hostname",
     "quiet", "setenv", "no_snapshot", "user_root", "allow_mknod",
     "forward_tls_env", "no_logs_tmpfs", "snapshot_into", "cap_net_admin",
     "no_private_network", "debug"}

\* Facts of the host and of the layer that differ from the default.
HostTags ==
    {"dev_fuse", "no_usr_os_release", "etc_os_release", "may_require_repo",
     "no_metadata", "repo_symlink", "thrift_env"}

RECURSIVE TagSets(_)
TagSets(n) ==
    IF n = 0 THEN {{}}
    ELSE LET P == TagSets(n - 1)
         IN  P \cup {S \cup {t} : S \in P, t \in OptTags \cup HostTags}

Opt(S, t, v) == IF t \in S THEN <<v>> ELSE <<>>

OptsOf(S) ==
    [cmd |-> IF "cmd_empty" \in S THEN <<>> ELSE <<"sh">>,
     layer |-> LayerPath,
     bind_repo_ro |-> "bind_repo_ro" \in S,
     bindmount_ro |-> Opt(S, "bindmount_ro", PlainMount)
                      \o Opt(S, "bindmount_ro_quoted", QuotedMount)
                      \o Opt(S, "bindmount_ro_malformed", MalformedMount),
     bindmount_rw |-> Opt(S, "bindmount_rw", PlainMount)
                      \o Opt(S, "bindmount_rw_quoted", QuotedMount),
     forward_fd |-> Opt(S, "forward_fd", 5),
     hostname |-> Opt(S, "hostname", "test-host"),
     quiet |-> "quiet" \in S,
     setenv |-> Opt(S, "setenv", <<"K", "=", "v">>),
     snapshot |-> "no_snapshot" \notin S,
     user |-> IF "user_root" \in S THEN ROOT_USER ELSE NOBODY_USER,
     debug_only_opts |->
        [forward_tls_env |-> "forward_tls_env" \in S,
         logs_tmpfs |-> "no_logs_tmpfs" \notin S,
         snapshot_into |-> IF "snapshot_into" \in S
                           THEN IntoSubvolPath ELSE None,
         cap_net_admin |-> "cap_net_admin" \in S,
         private_network |-> "no_private_network" \notin S,
         debug |-> "debug" \in S],
     allow_mknod |-> "allow_mknod" \in S]

HostOf(S) ==
    [environ |-> DefaultHost.environ
                 \o Opt(S, "thrift_env", <<<<"THRIFT_", "TLS_", "CERT">>, "/c">>),
     dev_fuse |-> "dev_fuse" \in S,
     os_release |-> (IF "no_usr_os_release" \in S
                     THEN {} ELSE {"/usr/lib/os-release"})
                    \cup (IF "etc_os_release" \in S
                          THEN {"/etc/os-release"} ELSE {}),
     may_require_repo |-> IF "no_metadata" \in S THEN "unreadable"
                          ELSE IF "may_require_repo" \in S THEN "1" ELSE "0",
     repo_symlink |-> "repo_symlink" \in S]

\* The assertions of new_nspawn_opts.
ValidNspawnOptsQuietMutant(o) ==
    o.debug_only_opts.snapshot_into = None \/ o.snapshot

ValidNspawnOptsSnapshotMutant(o) ==
    ~(o.quiet /\ o.debug_only_opts.debug)

ValidNspawnOpts(o) ==
    /\ ~(o.quiet /\ o.debug_only_opts.debug)
    /\ o.debug_only_opts.snapshot_into = None \/ o.snapshot

new_nspawn_opts ==
    /\ ctor = "pending"
    /\ ctor' = IF ValidNspawnOpts(kwargs) THEN "ok" ELSE "AssertionError"
    /\ UNCHANGED <<repo_vars, setup_vars, cli_vars, temp_vars, kwargs, host, runs>>

\* --------------------------------------------- cmd.py: the command builder

THRIFT_TLS == <<"THRIFT_", "TLS_">>

SYSTEMD_NSPAWN == <<"SYSTEMD_", "NSPAWN_">>

RECURSIVE ColonQuoteMutant(_)
ColonQuoteMutant(path) ==
    IF path = <<>> THEN <<>>
    ELSE (IF Head(path) = ":"
          THEN <<"\\", Head(path)>> ELSE <<Head(path)>>)
         \o ColonQuoteMutant(Tail(path))

RECURSIVE colon_quote_path(_)
colon_quote_path(path) ==
    IF path = <<>> THEN <<>>
    ELSE (IF Head(path) \in {":", "\\"}
          THEN <<"\\", Head(path)>> ELSE <<Head(path)>>)
         \o colon_quote_path(Tail(path))

bind_args(src, dest, readonly) ==
    << <<IF readonly THEN "--bind-ro" ELSE "--bind">>,
       colon_quote_path(src) \o <<":">> \o colon_quote_path(dest) >>

RECURSIVE BindAll(_, _)
BindAll(mounts, readonly) ==
    IF mounts = <<>> THEN <<>>
    ELSE bind_args(Head(mounts)[1], Head(mounts)[2], readonly)
         \o BindAll(Tail(mounts), readonly)

InjectOsReleaseMutant(h) ==
    IF "/usr/lib/os-release" \in h.os_release THEN <<>>
    ELSE bind_args(<<"/dev/null">>, <<"/usr/lib/os-release">>, TRUE)

inject_os_release_args(h) ==
    IF h.os_release # {} THEN <<>>
    ELSE bind_args(<<"/dev/null">>, <<"/usr/lib/os-release">>, TRUE)

NspawnCmdMutant(machine, subvol_path, h) ==
    << <<"env">>, <<"UNIFIED_CGROUP_HIERARCHY=yes">>, <<"systemd-nspawn">>,
       <<"--register=no">>, <<"--keep-unit">>,
       <<"--machine">>, <<IF runs = <<>> THEN "first" ELSE "second">>,
       <<"--directory">>, subvol_path >>
    \o inject_os_release_args(h)
    \o << <<"--link-journal=no">>, <<"--settings=no">>, <<"--timezone=off">> >>

nspawn_cmd(machine, subvol_path, h) ==
    << <<"env">>, <<"UNIFIED_CGROUP_HIERARCHY=yes">>, <<"systemd-nspawn">>,
       <<"--register=no">>, <<"--keep-unit">>,
       <<"--machine">>, <<machine>>,
       <<"--directory">>, subvol_path >>
    \o inject_os_release_args(h)
    \o << <<"--link-journal=no">>, <<"--settings=no">>, <<"--timezone=off">> >>

\* procfs_serde.deserialize_int of the layer's metadata file.
artifacts_may_require_repo(h) == h.may_require_repo = "1"

find_repo_root(h) == IF h.repo_symlink THEN RepoLink ELSE RepoRoot

realpath(p, h) == IF h.repo_symlink /\ p = RepoLink THEN RepoRoot ELSE p

\* Whether _extra_nspawn_args_and_env raises: `for src, dest in` cannot
\* unpack an entry that is not a pair, and the metadata, read only when
\* bind_repo_ro is false, cannot be deserialized.
ExtraArgsRaises(o, h) ==
    \/ \E n \in DOMAIN o.bindmount_rw : Len(o.bindmount_rw[n]) # 2
    \/ \E n \in DOMAIN o.bindmount_ro : Len(o.bindmount_ro[n]) # 2
    \/ ~o.bind_repo_ro /\ h.may_require_repo = "unreadable"

Join(parts) ==
    LET RECURSIVE J(_)
        J(ps) == IF Len(ps) = 1 THEN Head(ps)
                 ELSE Head(ps) \o <<",">> \o J(Tail(ps))
    IN  J(parts)

LogsTmpfsArg(user) ==
    <<"--tmpfs=/logs:">>
    \o Join(<< <<"uid=", Str(user.pw_uid)>>, <<"gid=", Str(user.pw_gid)>>,
               <<"mode=0755">>, <<"nodev">>, <<"nosuid">>, <<"noexec">> >>)

If(c, args) == IF c THEN args ELSE <<>>

QuietArgs(o) == If(o.quiet, << <<"--quiet">> >>)

PrivateNetworkArgsMutant(o) ==
    If(~o.debug_only_opts.private_network, << <<"--private-network">> >>)

PrivateNetworkArgs(o) ==
    If(o.debug_only_opts.private_network, << <<"--private-network">> >>)

BindmountArgsMutant(o) ==
    If(o.bindmount_ro # <<>>, BindAll(o.bindmount_ro, TRUE))
    \o If(o.bindmount_rw # <<>>, BindAll(o.bindmount_rw, FALSE))

BindmountArgs(o) ==
    If(o.bindmount_rw # <<>>, BindAll(o.bindmount_rw, FALSE))
    \o If(o.bindmount_ro # <<>>, BindAll(o.bindmount_ro, TRUE))

RepoArgsMutant(o, h) ==
    If(o.bind_repo_ro \/ artifacts_may_require_repo(h),
       bind_args(find_repo_root(h), find_repo_root(h), TRUE))

RepoArgs(o, h) ==
    If(o.bind_repo_ro \/ artifacts_may_require_repo(h),
       bind_args(realpath(find_repo_root(h), h),
                 realpath(find_repo_root(h), h), TRUE))

LogsTmpfsArgsMutant(o) ==
    If(o.debug_only_opts.logs_tmpfs, <<LogsTmpfsArg(NOBODY_USER)>>)

LogsTmpfsArgs(o) ==
    If(o.debug_only_opts.logs_tmpfs, <<LogsTmpfsArg(o.user)>>)

DevFuseArgs(h) == If(h.dev_fuse, << <<"--bind-ro=/dev/fuse">> >>)

CapNetAdminArgs(o) ==
    If(o.debug_only_opts.cap_net_admin,
       << <<"--capability=CAP_NET_ADMIN">> >>)

HostnameArgs(o) ==
    If(o.hostname # None, << <<"--hostname=">> \o o.hostname >>)

MknodArgsMutant(o) ==
    If(o.allow_mknod, << <<"--drop-capability=CAP_MKNOD">> >>)

MknodArgs(o) ==
    If(~o.allow_mknod, << <<"--drop-capability=CAP_MKNOD">> >>)

extra_nspawn_args(o, h) ==
    QuietArgs(o)
    \o PrivateNetworkArgs(o)
    \o BindmountArgs(o)
    \o RepoArgs(o, h)
    \o LogsTmpfsArgs(o)
    \o DevFuseArgs(h)
    \o CapNetAdminArgs(o)
    \o HostnameArgs(o)
    \o MknodArgs(o)

FormatVar(e) == e[1] \o <<"=", e[2]>>

RECURSIVE ForwardTlsMutant(_, _)
ForwardTlsMutant(environ, cmd_env) ==
    IF environ = <<>> THEN cmd_env
    ELSE ForwardTlsMutant(Tail(environ),
                          <<FormatVar(Head(environ))>> \o cmd_env)

\* cmd_env.insert(0, ...) for each THRIFT_TLS_ variable, in os.environ order.
RECURSIVE ForwardTls(_, _)
ForwardTls(environ, cmd_env) ==
    IF environ = <<>> THEN cmd_env
    ELSE ForwardTls(Tail(environ),
                    IF StartsWith(Head(environ)[1], THRIFT_TLS)
                    THEN <<FormatVar(Head(environ))>> \o cmd_env
                    ELSE cmd_env)

CmdEnvMutant(o, h) ==
    o.setenv
    \o (IF o.debug_only_opts.forward_tls_env
        THEN ForwardTls(h.environ, <<>>) ELSE <<>>)

cmd_env_of(o, h) ==
    (IF o.debug_only_opts.forward_tls_env
     THEN ForwardTls(h.environ, <<>>) ELSE <<>>)
    \o o.setenv

SanitizeEnvMutant(environ) ==
    SelectSeq(environ, LAMBDA e : ~StartsWith(e[1], <<"SYSTEMD_">>))

nspawn_sanitize_env(environ) ==
    SelectSeq(environ, LAMBDA e : ~StartsWith(e[1], SYSTEMD_NSPAWN))

\* The subvolume _nspawn_setup hands to the runtime.
NspawnSubvolPath(o) ==
    IF ~o.snapshot THEN o.layer
    ELSE IF o.debug_only_opts.snapshot_into # None
         THEN o.debug_only_opts.snapshot_into
         ELSE TmpSubvolPath

\* One composition of _nspawn_setup: the arguments, the command line and
\* the two environments, for the machine id uuid4() returned.
Compose(machine, o, h) ==
    IF ExtraArgsRaises(o, h)
    THEN [machine |-> machine, host |-> h, status |-> "raised",
          nspawn_cmd |-> <<>>, cmd_env |-> <<>>, nspawn_env |-> <<>>]
    ELSE [machine |-> machine, host |-> h, status |-> "ok",
          nspawn_cmd |-> nspawn_cmd(machine, NspawnSubvolPath(o), h)
                         \o extra_nspawn_args(o, h),
          cmd_env |-> cmd_env_of(o, h),
          nspawn_env |-> nspawn_sanitize_env(h.environ)]

Uuids == {"u1", "u2"}

\* The builder is run at most twice on the constructed options.
NspawnSetup ==
    /\ ctor = "ok"
    /\ Len(runs) <= 1
    /\ \E machine \in Uuids :
           runs' = Append(runs, Compose(machine, kwargs, host))
    /\ UNCHANGED <<repo_vars, setup_vars, cli_vars, temp_vars, kwargs, ctor, host>>

\* /dev/fuse appears on, or disappears from, the host between two runs of
\* the builder (a change before the first run is another initial host).
DevFuseChange ==
    /\ Len(runs) = 1
    /\ host' = [host EXCEPT !.dev_fuse = ~@]
    /\ UNCHANGED <<repo_vars, setup_vars, cli_vars, temp_vars, kwargs, ctor, runs>>

\* ------------------------------------------- args.py: _parse_cli_args
\* The option strings of _parse_cli_args and _parser_add_nspawn_opts that
\* occur, each with the value it is given.
MainFlags ==
    {"--layer=/layer", "--boot", "--append-boot-console=f",
     "--serve-rpm-snapshot=/s", "--quiet", "--no-snapshot", "--user=root",
     "--no-private-network", "--allow-mknod", "--forward-fd=0",
     "--forward-fd=5"}

\* The option strings of _parser_add_debug_only_not_for_prod_opts.
DebugFlags ==
    {"--debug", "--forward-tls-env", "--no-logs-tmpfs",
     "--snapshot-into=/into", "--cap-net-admin", "--private-network"}

\* The options the parser knows.
ParserFlags(allow) == MainFlags \cup (IF allow THEN DebugFlags ELSE {})

\* The namespace argparse starts from: the default of every destination.
\* The destinations of the debug-only parser exist only when it was added;
\* nothing reads them otherwise.
ArgDefaults ==
    [layer |-> None,
     boot |-> FALSE,
     append_boot_console |-> None,
     serve_rpm_snapshots |-> <<>>,
     quiet |-> FALSE,
     snapshot |-> TRUE,
     user |-> NOBODY_USER,
     private_network |-> TRUE,
     allow_mknod |-> FALSE,
     forward_fd |-> <<>>,
     debug |-> FALSE,
     forward_tls_env |-> FALSE,
     logs_tmpfs |-> TRUE,
     snapshot_into |-> None,
     cap_net_admin |-> FALSE]

\* The effect of one option on the namespace.
StoreArg(ns, a) ==
    CASE a = "--layer=/layer" -> [ns EXCEPT !.layer = LayerPath]
      [] a = "--boot" -> [ns EXCEPT !.boot = TRUE]
      [] a = "--append-boot-console=f" ->
             [ns EXCEPT !.append_boot_console = <<"f">>]
      [] a = "--serve-rpm-snapshot=/s" ->
             [ns EXCEPT !.serve_rpm_snapshots = Append(@, <<"/s">>)]
      [] a = "--quiet" -> [ns EXCEPT !.quiet = TRUE]
      [] a = "--no-snapshot" -> [ns EXCEPT !.snapshot = FALSE]
      [] a = "--user=root" -> [ns EXCEPT !.user = ROOT_USER]
      [] a = "--no-private-network" -> [ns EXCEPT !.private_network = FALSE]
      [] a = "--allow-mknod" -> [ns EXCEPT !.allow_mknod = TRUE]
      [] a = "--forward-fd=0" -> [ns EXCEPT !.forward_fd = Append(@, 0)]
      [] a = "--forward-fd=5" -> [ns EXCEPT !.forward_fd = Append(@, 5)]
      [] a = "--debug" -> [ns EXCEPT !.debug = TRUE]
      [] a = "--forward-tls-env" -> [ns EXCEPT !.forward_tls_env = TRUE]
      [] a = "--no-logs-tmpfs" -> [ns EXCEPT !.logs_tmpfs = FALSE]
      [] a = "--snapshot-into=/into" ->
             [ns EXCEPT !.snapshot_into = IntoSubvolPath]
      [] a = "--cap-net-admin" -> [ns EXCEPT !.cap_net_admin = TRUE]
      [] a = "--private-network" -> [ns EXCEPT !.private_network = TRUE]

\* parser.parse_args: the options are stored from left to right.
RECURSIVE ParseArgs(_, _)
ParseArgs(ns, args) ==
    IF args = <<>> THEN ns
    ELSE ParseArgs(StoreArg(ns, Head(args)), Tail(args))

AllDebugOnlyFields ==
    {"forward_tls_env", "logs_tmpfs", "snapshot_into", "cap_net_admin",
     "private_network", "debug"}

\* An extraction that reads the debug-only fields whatever the caller allows.
DebugOnlyFieldsMutant(allow) == AllDebugOnlyFields

\* _NspawnDebugOnlyNotForProdOpts._fields if allow_debug_only_opts else ()
DebugOnlyFields(allow) == IF allow THEN AllDebugOnlyFields ELSE {}

\* _extract_opts_from_dict(_new_nspawn_debug_only_not_for_prod_opts, fields,
\* args.__dict__): the fields asked for are taken from the namespace, the
\* others keep the default of the constructor.
ExtractDebugOnlyOpts(fields, ns) ==
    LET dflt == NspawnDebugOnlyNotForProdOpts
    IN  [forward_tls_env |-> IF "forward_tls_env" \in fields
                             THEN ns.forward_tls_env ELSE dflt.forward_tls_env,
         logs_tmpfs |-> IF "logs_tmpfs" \in fields
                        THEN ns.logs_tmpfs ELSE dflt.logs_tmpfs,
         snapshot_into |-> IF "snapshot_into" \in fields
                           THEN ns.snapshot_into ELSE dflt.snapshot_into,
         cap_net_admin |-> IF "cap_net_admin" \in fields
                           THEN ns.cap_net_admin ELSE dflt.cap_net_admin,
         private_network |-> IF "private_network" \in fields
                             THEN ns.private_network ELSE dflt.private_network,
         debug |-> IF "debug" \in fields THEN ns.debug ELSE dflt.debug]

\* _extract_opts_from_dict(new_nspawn_opts, _NspawnOpts._fields,
\* args.__dict__, debug_only_opts=...); cmd is [_DEFAULT_SHELL].
ExtractOpts(ns, allow) ==
    [NspawnOpts(<<"/bin/bash">>) EXCEPT
        !.layer = ns.layer,
        !.forward_fd = ns.forward_fd,
        !.quiet = ns.quiet,
        !.snapshot = ns.snapshot,
        !.user = ns.user,
        !.allow_mknod = ns.allow_mknod,
        !.debug_only_opts = ExtractDebugOnlyOpts(DebugOnlyFields(allow), ns)]

\* _parse_cli_args(argv, allow_debug_only_opts=allow): how it ends and what
\* it returns.
ParseCliArgs(args, allow) ==
    LET ns == ParseArgs(ArgDefaults, args)
        o == ExtractOpts(ns, allow)
        status ==
            IF \/ \E n \in DOMAIN args : args[n] \notin ParserFlags(allow)
               \/ "--layer=/layer" \notin Range(args)
            THEN "SystemExit"
            ELSE IF ~(ns.boot \/ ns.append_boot_console = None)
            THEN "AssertionError"
            ELSE IF ~ValidNspawnOpts(o)
            THEN "AssertionError"
            ELSE IF ~(ns.serve_rpm_snapshots = <<>> \/ o.user.pw_name = "root")
            THEN "AssertionError"
            ELSE "ok"
    IN  [status |-> status,
         opts |-> o,
         cli |-> [boot |-> ns.boot,
                  append_boot_console |-> ns.append_boot_console,
                  serve_rpm_snapshots |-> ns.serve_rpm_snapshots]]

parse_cli_args ==
    /\ ctor = "pending"
    /\ LET res == ParseCliArgs(cli_argv, allow_debug_only_opts)
       IN  /\ ctor' = res.status
           /\ kwargs' = IF res.status = "ok" THEN res.opts ELSE kwargs
           /\ cli_args' = IF res.status = "ok" THEN res.cli ELSE cli_args
    /\ UNCHANGED <<repo_vars, setup_vars, temp_vars, host, runs, cli_argv,
                   allow_debug_only_opts, launches>>

\* ------------------------------------ cmd.py: maybe_popen_and_inject_fds
\* A launcher that always spawns directly.
LaunchPathMutant(o) == "popen"

\* popen_and_inject_fds_after_sudo(cmd, opts.forward_fd, popen, ...)
\*     if opts.forward_fd else popen(cmd)
LaunchPath(o) ==
    IF o.forward_fd # <<>> THEN "popen_and_inject_fds_after_sudo" ELSE "popen"

\* The composition not yet launched is launched: the context manager enters
\* the one callable it chose, with the descriptors it hands to it.
maybe_popen_and_inject_fds ==
    /\ Len(launches) < Len(runs)
    /\ runs[Len(launches) + 1].status = "ok"
    /\ launches' = Append(launches,
           [run |-> Len(launches) + 1,
            via |-> LaunchPath(kwargs),
            fds |-> IF LaunchPath(kwargs) = "popen" THEN <<>>
                    ELSE kwargs.forward_fd])
    /\ UNCHANGED <<repo_vars, setup_vars, temp_vars, cmd_vars, cli_argv,
                   allow_debug_only_opts, cli_args>>

\* --------------------------------------- temp_repos.py: temp_repos_steps
\* The names tempfile.mkdtemp can draw.
TmpNames == {"tmp_a", "tmp_b", "tmp_c", "tmp_d"}

TEMP_UNCHANGED == UNCHANGED <<repo_vars, setup_vars, cmd_vars, cli_vars>>

\* td = Path(tempfile.mkdtemp(dir=base_dir)): a directory with a name that
\* no directory has or had is created.
Mkdtemp(i) ==
    /\ tpc[i] = "unstarted"
    /\ \E name \in TmpNames \ (tmp_dirs \cup {td[j] : j \in Invocations}) :
          /\ td' = [td EXCEPT ![i] = name]
          /\ tmp_dirs' = tmp_dirs \cup {name}
    /\ tpc' = [tpc EXCEPT ![i] = "make_repo_steps"]
    /\ UNCHANGED texc
    /\ TEMP_UNCHANGED

\* mkdtemp raises, before the `try`: there is no directory.
MkdtempFail(i) ==
    /\ tpc[i] = "unstarted"
    /\ texc' = [texc EXCEPT ![i] = "OSError"]
    /\ tpc' = [tpc EXCEPT ![i] = "left"]
    /\ UNCHANGED <<td, tmp_dirs>>
    /\ TEMP_UNCHANGED

\* try: make_repo_steps(out_dir=td, ...); yield td
MakeRepoSteps(i) ==
    /\ tpc[i] = "make_repo_steps"
    /\ tpc' = [tpc EXCEPT ![i] = "body"]
    /\ UNCHANGED <<td, tmp_dirs, texc>>
    /\ TEMP_UNCHANGED

\* make_repo_steps raises (rpmbuild or createrepo_c fails).
MakeRepoStepsFail(i) ==
    /\ tpc[i] = "make_repo_steps"
    /\ texc' = [texc EXCEPT ![i] = "CalledProcessError"]
    /\ tpc' = [tpc EXCEPT ![i] = "except"]
    /\ UNCHANGED <<td, tmp_dirs>>
    /\ TEMP_UNCHANGED

\* The body of the `with` ends normally: the generator resumes after the
\* yield, leaves the `try` with no exception, and returns.
TempBodyReturn(i) ==
    /\ tpc[i] = "body"
    /\ tpc' = [tpc EXCEPT ![i] = "left"]
    /\ UNCHANGED <<td, tmp_dirs, texc>>
    /\ TEMP_UNCHANGED

\* The body raises: the exception is thrown in at the yield.
TempBodyRaise(i) ==
    /\ tpc[i] = "body"
    /\ texc' = [texc EXCEPT ![i] = "BodyError"]
    /\ tpc' = [tpc EXCEPT ![i] = "except"]
    /\ UNCHANGED <<td, tmp_dirs>>
    /\ TEMP_UNCHANGED

\* except BaseException: shutil.rmtree(td); raise
Rmtree(i) ==
    /\ tpc[i] = "except"
    /\ tmp_dirs' = tmp_dirs \ {td[i]}
    /\ tpc' = [tpc EXCEPT ![i] = "left"]
    /\ UNCHANGED <<td, texc>>
    /\ TEMP_UNCHANGED

\* ---------------------------------------------------------- specifications
\* No _nspawn_setup runs while the repo servers are studied, and conversely.
IdleSetup ==
    /\ opts = [i \in Invocations |-> [snapshot |-> FALSE, snapshot_into |-> FALSE]]
    /\ spc = [i \in Invocations |-> "released"]
    /\ subvols = {Layer}
    /\ tmp_subvols = [i \in Invocations |-> {}]
    /\ nspawn_subvol = [i \in Invocations |-> <<>>]
    /\ sexc = [i \in Invocations |-> "none"]
    /\ outcome = [i \in Invocations |-> "none"]

\* No temp_repos_steps runs.
IdleTemp ==
    /\ tpc = [i \in Invocations |-> "left"]
    /\ td = [i \in Invocations |-> ""]
    /\ tmp_dirs = {}
    /\ texc = [i \in Invocations |-> "none"]

\* No command line is parsed and nothing is launched.
IdleCli ==
    /\ cli_argv = <<>>
    /\ allow_debug_only_opts = FALSE
    /\ cli_args = NoCliArgs
    /\ launches = <<>>

IdleCmd ==
    /\ kwargs = NspawnOpts(<<"sh">>)
    /\ ctor = "pending"
    /\ host = DefaultHost
    /\ runs = <<>>

IdleRepo ==
    /\ InitRepo
    /\ ports_file = <<>>

Init ==
    /\ InitRepo
    /\ IdleSetup
    /\ IdleCmd
    /\ IdleCli
    /\ IdleTemp

Next ==
    \/ ReadPorts
    \/ ReadPortsFail
    \/ listen_temporary_unix_socket
    \/ PopenHelper
    \/ PopenHelperFail
    \/ RecvConnect
    \/ RecvMsg
    \/ RecvEOF
    \/ RecvTimeout
    \/ MakeSocks
    \/ AssertLen
    \/ WaitHelper
    \/ CloseListen
    \/ CheckReturncode
    \/ HelperStartFail
    \/ HelperStart
    \/ HelperAccept
    \/ HelperAcceptTimeout
    \/ HelperCreateSocket
    \/ HelperCreateSocketFail
    \/ HelperSend
    \/ HelperSendBrokenPipe
    \/ HelperSendTimeout
    \/ HelperExit
    \/ Bind
    \/ BindFail
    \/ PopenServer
    \/ PopenServerFail
    \/ PollServer
    \/ GetSockOpt
    \/ Sleep
    \/ SleepInterrupted
    \/ EnterContext
    \/ BodyReturn
    \/ BodyRaise
    \/ KillServer
    \/ WaitServer
    \/ CloseSock
    \/ LeaveScope
    \/ \E b \in SockIds : ServerListen(b)
    \/ \E b \in SockIds : ServerExit(b)

\* launch_repo_servers_for_netns, the handoff and the servers.
Spec == Init /\ [][Next]_vars

\* The operating system schedules every process and every timeout expires:
\* a step that stays possible is eventually taken.
FairSpec == Spec /\ WF_vars(Next)

\* The steps of the orchestrator, without those of the caller's body.
OrchNext ==
    \/ ReadPorts
    \/ ReadPortsFail
    \/ listen_temporary_unix_socket
    \/ PopenHelper
    \/ PopenHelperFail
    \/ RecvConnect
    \/ RecvMsg
    \/ RecvEOF
    \/ RecvTimeout
    \/ MakeSocks
    \/ AssertLen
    \/ WaitHelper
    \/ CloseListen
    \/ CheckReturncode
    \/ Bind
    \/ BindFail
    \/ PopenServer
    \/ PopenServerFail
    \/ PollServer
    \/ GetSockOpt
    \/ Sleep
    \/ SleepInterrupted
    \/ EnterContext
    \/ KillServer
    \/ WaitServer
    \/ CloseSock
    \/ LeaveScope

\* The steps of the helper process.
HelperNext ==
    \/ HelperStartFail
    \/ HelperStart
    \/ HelperAccept
    \/ HelperAcceptTimeout
    \/ HelperCreateSocket
    \/ HelperCreateSocketFail
    \/ HelperSend
    \/ HelperSendBrokenPipe
    \/ HelperSendTimeout
    \/ HelperExit

\* Every process is scheduled: the orchestrator and the helper take a step
\* that stays possible, and a repo server that stays alive eventually
\* listens on its socket.  The caller's body is under no obligation.
ProcFairSpec ==
    /\ Spec
    /\ WF_vars(OrchNext)
    /\ WF_vars(HelperNext)
    /\ \A b \in SockIds : WF_vars(ServerListen(b))

SetupInit ==
    /\ IdleRepo
    /\ InitSetup
    /\ IdleCmd
    /\ IdleCli
    /\ IdleTemp

SetupNext ==
    \E i \in Invocations :
        \/ SetupEnter(i)
        \/ SnapshotInto(i)
        \/ TmpSnapshot(i)
        \/ SnapshotFail(i)
        \/ CloneMounts(i)
        \/ CloneMountsFail(i)
        \/ BuildArgs(i)
        \/ BuildArgsFail(i)
        \/ BodyEnd(i)
        \/ TempSubvolumesExit(i)
        \/ SetupLeave(i)

\* _nspawn_setup run by NumInvocations invocations.
SetupSpec == SetupInit /\ [][SetupNext]_vars

\* The steps of one invocation.
SetupStep(i) ==
    \/ SetupEnter(i)
    \/ SnapshotInto(i)
    \/ TmpSnapshot(i)
    \/ SnapshotFail(i)
    \/ CloneMounts(i)
    \/ CloneMountsFail(i)
    \/ BuildArgs(i)
    \/ BuildArgsFail(i)
    \/ BodyEnd(i)
    \/ TempSubvolumesExit(i)
    \/ SetupLeave(i)

\* The command lines: with or without the required --layer, then up to
\* MaxArgv options.
Argvs ==
    {p \o r : p \in {<<>>, <<"--layer=/layer">>},
              r \in SeqsUpTo((MainFlags \cup DebugFlags) \ {"--layer=/layer"},
                             MaxArgv)}

ParseInit ==
    /\ IdleRepo
    /\ IdleSetup
    /\ IdleTemp
    /\ IdleCmd
    /\ cli_argv \in Argvs
    /\ allow_debug_only_opts \in BOOLEAN
    /\ cli_args = NoCliArgs
    /\ launches = <<>>

ParseNext ==
    \/ parse_cli_args
    \/ NspawnSetup
    \/ maybe_popen_and_inject_fds

\* _parse_cli_args, the builder and the launch, over command lines.
ParseSpec == ParseInit /\ [][ParseNext]_vars

TempInit ==
    /\ IdleRepo
    /\ IdleSetup
    /\ IdleCmd
    /\ IdleCli
    /\ tpc = [i \in Invocations |-> "unstarted"]
    /\ td = [i \in Invocations |-> ""]
    /\ tmp_dirs = {}
    /\ texc = [i \in Invocations |-> "none"]

TempNext ==
    \E i \in Invocations :
        \/ Mkdtemp(i)
        \/ MkdtempFail(i)
        \/ MakeRepoSteps(i)
        \/ MakeRepoStepsFail(i)
        \/ TempBodyReturn(i)
        \/ TempBodyRaise(i)
        \/ Rmtree(i)

\* temp_repos_steps entered by NumInvocations users.
TempSpec == TempInit /\ [][TempNext]_vars

\* The ambient variables the environments are drawn from.
EnvVars ==
    { <<<<"HOME">>, "/x">>,
      <<<<"SYSTEMD_", "NSPAWN_", "FOO">>, "bar">>,
      <<<<"SYSTEMD_", "NSPAWN_">>, "1">>,
      <<<<"SYSTEMD_", "FOO">>, "bar">>,
      <<<<"THRIFT_", "TLS_", "CERT">>, "/c">>,
      <<<<"THRIFT_", "TLS_", "KEY">>, "/k">>,
      <<<<"MY_", "THRIFT_", "TLS_">>, "/x">> }

\* os.environ: distinct names, in insertion order.
Environs ==
    {e \in SeqsUpTo(EnvVars, MaxEnvVars) :
        \A i, j \in DOMAIN e : i # j => e[i] # e[j]}

SetenvEntries ==
    { <<"THRIFT_", "TLS_", "CERT", "=", "mine">>, <<"K", "=", "v">> }

CmdInit ==
    /\ IdleRepo
    /\ IdleCli
    /\ IdleTemp
    /\ IdleSetup
    /\ ctor = "pending"
    /\ runs = <<>>
    /\ \E S \in TagSets(MaxOverrides) :
           /\ kwargs = OptsOf(S)
           /\ host = HostOf(S)

CmdNext ==
    \/ new_nspawn_opts
    \/ NspawnSetup
    \/ DevFuseChange

\* new_nspawn_opts and the builder, over options and host facts.
CmdSpec == CmdInit /\ [][CmdNext]_vars

EnvInit ==
    /\ IdleRepo
    /\ IdleCli
    /\ IdleTemp
    /\ IdleSetup
    /\ ctor = "pending"
    /\ runs = <<>>
    /\ \E e \in Environs, s \in SeqsUpTo(SetenvEntries, MaxSetenv),
          f \in BOOLEAN :
           /\ kwargs = [NspawnOpts(<<"sh">>) EXCEPT
                            !.setenv = s,
                            !.debug_only_opts.forward_tls_env = f]
           /\ host = [DefaultHost EXCEPT !.environ = e]

\* new_nspawn_opts and the builder, over ambient environments.
EnvSpec == EnvInit /\ [][CmdNext]_vars

\* The pieces host and guest paths are made of: a plain piece, and the two
\* bytes _colon_quote_path escapes.
PathTokens == {"/a", ":", "\\"}

Paths == SeqsUpTo(PathTokens, MaxPathLen)

QuoteInit ==
    /\ IdleRepo
    /\ IdleCli
    /\ IdleTemp
    /\ IdleSetup
    /\ ctor = "pending"
    /\ runs = <<>>
    /\ host = DefaultHost
    /\ \E src \in Paths, dest \in Paths, readonly \in BOOLEAN :
           kwargs = IF readonly
                    THEN [NspawnOpts(<<"sh">>) EXCEPT
                              !.bindmount_ro = << <<src, dest>> >>]
                    ELSE [NspawnOpts(<<"sh">>) EXCEPT
                              !.bindmount_rw = << <<src, dest>> >>]

\* new_nspawn_opts and the builder, over one mount of arbitrary paths.
QuoteSpec == QuoteInit /\ [][CmdNext]_vars


\* ------------------------------------------------------------------ claims
IsPrefix(s, t) == Len(s) <= Len(t) /\ s = SubSeq(t, 1, Len(s))

Started == Range(start_log)

\* C1: a handoff for N sockets returns exactly N sockets or fails as a
\* whole: the caller never holds a list of another length, a received
\* count different from N ends in an error, and the receive is attempted
\* at most once.
C1_ExactlyNOrFail ==
    /\ attempts <= 1
    /\ handoff = "returned" =>
          /\ Len(repo_server_socks) = num_socks
          /\ Len(recvd) = num_socks
    /\ (handoff # "none" /\ Len(recvd) # num_socks) => handoff = "error"
    /\ (pc = "done" /\ Len(recvd) # num_socks) => result = "error"

\* A batch of NumPorts sockets was returned.
C1_Witness ==
    /\ handoff = "returned"
    /\ num_socks = NumPorts
    /\ Len(repo_server_socks) = NumPorts

\* C2: the helper accepts at most one connection and sends at most one
\* message; a message is sent only once all N sockets exist and carries
\* all N descriptors; a helper that exits with status 0 has accepted one
\* connection and sent one message.
C2_OneMessageAllFds ==
    /\ accepts <= 1
    /\ Len(sent) <= 1
    /\ Len(sent) <= accepts
    /\ \A m \in 1..Len(sent) :
          /\ hcreated = num_socks
          /\ Len(sent[m]) = num_socks
          /\ Range(sent[m]) = 1..num_socks
    /\ (hpc = "exited" /\ hrc = 0) => accepts = 1 /\ Len(sent) = 1

\* The helper sent its message with NumPorts descriptors and exited.
C2_Witness ==
    /\ num_socks = NumPorts
    /\ hpc = "exited"
    /\ hrc = 0
    /\ Len(sent) = 1
    /\ Len(sent[1]) = NumPorts

\* C3: the sockets are returned only when the helper exited with status 0;
\* after a non-zero exit the handoff has failed, even if all N descriptors
\* were received.
C3_NonZeroExitIsFatal ==
    /\ handoff = "returned" => hpc = "exited" /\ hrc = 0
    /\ (hpc = "exited" /\ hrc # 0 /\ handoff # "none") => handoff = "error"
    /\ (hpc = "exited" /\ hrc # 0 /\ pc = "done") => result = "error"

\* All N > 0 descriptors were received, the helper exited non-zero, and
\* the handoff failed on the exit status alone.
C3_Witness ==
    /\ num_socks = NumPorts
    /\ Len(recvd) = num_socks
    /\ hrc = 1
    /\ exc = "CalledProcessError"
    /\ handoff = "error"

\* C4: once a timeout has expired on either side, the handoff never
\* returns sockets, and the supervisor scope eventually ends in an error
\* (it does not hang).
C4_TimeoutIsFatal ==
    /\ []((otimeout \/ htimeout) => handoff # "returned")
    /\ ((otimeout \/ htimeout) ~> (pc = "done" /\ result = "error"))

\* The helper's accept and the orchestrator's receive both timed out and
\* the error reached the caller.
C4_Witness ==
    /\ htimeout
    /\ otimeout
    /\ pc = "done"
    /\ result = "error"
    /\ handoff = "error"

\* C5: a server that exits before its socket listens makes the launch fail:
\* the caller's body is never run and the scope does not end well.
C5_EarlyExitIsFatal ==
    \A b \in SockIds :
        died_early[b] => body = "none" /\ result # "ok"

\* C6: the servers are killed in exactly the reverse of their start order,
\* and a server is killed only once every server killed before it has been
\* reaped; when the scope has been left every started server was killed.
C6_KillReverseOrder ==
    /\ IsPrefix(kill_log, Reverse(start_log))
    /\ \A i \in 1..(Len(kill_log) - 1) : srv[kill_log[i]] = "reaped"
    /\ pc = "done" => kill_log = Reverse(start_log)

\* NumPorts servers were started and all were killed.
C6_Witness ==
    /\ pc = "done"
    /\ Len(start_log) = NumPorts
    /\ NumPorts >= 2
    /\ Len(kill_log) = NumPorts

\* C7: when the setup of a binding fails (bind raises, the server cannot be
\* spawned, or the server exits before listening), the caller's body is
\* never run, and by the time the scope is left it has ended in an error
\* with every started server killed in reverse start order.
C7_SetupFailureUnwinds ==
    (fail \in {"bind", "spawn"} \/ \E b \in SockIds : died_early[b])
        => /\ body = "none"
           /\ pc = "done" => /\ result = "error"
                             /\ kill_log = Reverse(start_log)
                             /\ \A b \in Started : srv[b] = "reaped"

\* C8: once the scope has been left, every server that was started has
\* been killed (or had exited) and has been reaped.
C8_NoOrphans ==
    pc = "done" =>
        /\ \A b \in SockIds : srv[b] \in {"none", "reaped"}
        /\ \A b \in Started : srv[b] = "reaped" /\ b \in Range(kill_log)

\* The body raised with NumPorts servers running; all were reaped.
C8_Witness ==
    /\ pc = "done"
    /\ body = "raised"
    /\ Len(start_log) = NumPorts
    /\ \A b \in Started : srv[b] = "reaped"

\* C9: no socket is passed to two servers, and every server that was
\* started was passed exactly one socket, one of those received.
C9_SingleOwner ==
    /\ \A s \in SockIds : Cardinality({b \in SockIds : s \in srv_fds[b]}) <= 1
    /\ \A b \in SockIds :
          IF srv[b] = "none"
          THEN srv_fds[b] = {}
          ELSE Cardinality(srv_fds[b]) = 1 /\ srv_fds[b] \subseteq Range(recvd)

\* NumPorts servers hold one socket each.
C9_Witness ==
    /\ NumPorts >= 2
    /\ \A b \in SockIds : srv[b] # "none" /\ Cardinality(srv_fds[b]) = 1

\* C10: with snapshot mode on and no persisted destination, the scratch
\* snapshot of an invocation does not exist once _nspawn_setup has been
\* left, however the scope ended.
C10_ScratchRemoved ==
    \A i \in Invocations :
        (spc[i] = "released" /\ opts[i].snapshot /\ ~opts[i].snapshot_into)
            => /\ TmpPath(i) \notin subvols
               /\ tmp_subvols[i] = {}

\* An ephemeral invocation took its scratch snapshot, ran, was cancelled
\* and has been left.
C10_Witness ==
    \E i \in Invocations :
        /\ spc[i] = "released"
        /\ opts[i].snapshot
        /\ ~opts[i].snapshot_into
        /\ nspawn_subvol[i] = TmpPath(i)
        /\ outcome[i] = "cancelled"
        /\ TmpPath(i) \notin subvols


\* C11: once a persisted snapshot (snapshot_into) has been created, it
\* exists in every later state, in particular after the scoped execution
\* has been left, however it ended.
C11_PersistedKept ==
    \A i \in Invocations :
        (opts[i].snapshot_into /\ nspawn_subvol[i] = IntoPath(i))
            => IntoPath(i) \in subvols

\* A persisted invocation took its snapshot, ran, was cancelled and has
\* been left; the snapshot is still there.
C11_Witness ==
    \E i \in Invocations :
        /\ spc[i] = "released"
        /\ opts[i].snapshot_into
        /\ nspawn_subvol[i] = IntoPath(i)
        /\ outcome[i] = "cancelled"
        /\ IntoPath(i) \in subvols


\* C12: constructing options with quiet and debug both set always fails
\* validation, and no options that new_nspawn_opts returned have both set.
C12_QuietDebugRejected ==
    /\ ctor = "ok" => ~(kwargs.quiet /\ kwargs.debug_only_opts.debug)
    /\ (ctor # "pending" /\ kwargs.quiet /\ kwargs.debug_only_opts.debug)
           => ctor = "AssertionError"

C12_Witness ==
    /\ ctor = "AssertionError"
    /\ kwargs.quiet /\ kwargs.debug_only_opts.debug
    /\ kwargs.debug_only_opts.snapshot_into = None

\* C13: constructing options with snapshot_into set while snapshot is
\* disabled always fails validation; in all options that new_nspawn_opts
\* returned, snapshot_into set implies snapshot enabled.
C13_SnapshotIntoNeedsSnapshot ==
    /\ (ctor = "ok" /\ kwargs.debug_only_opts.snapshot_into # None)
           => kwargs.snapshot
    /\ (ctor # "pending" /\ kwargs.debug_only_opts.snapshot_into # None
        /\ ~kwargs.snapshot)
           => ctor = "AssertionError"

C13_Witness ==
    /\ ctor = "AssertionError"
    /\ kwargs.debug_only_opts.snapshot_into = IntoSubvolPath
    /\ ~kwargs.snapshot
    /\ ~kwargs.quiet

\* C14: all options that construction accepts have a non-empty command;
\* construction with an empty argument list as the command fails.
C14_CmdNonEmpty ==
    ctor = "ok" => kwargs.cmd # <<>>

OkRuns == {i \in DOMAIN runs : runs[i].status = "ok"}

Reserved(name) ==
    Len(name) >= 2 /\ name[1] = "SYSTEMD_" /\ name[2] = "NSPAWN_"

\* C16: the sanitized environment holds exactly the ambient variables whose
\* name does not start with SYSTEMD_NSPAWN_, each with its ambient value:
\* every variable with the prefix is dropped, no other is dropped or changed.
C16_SanitizedEnv ==
    \A i \in OkRuns :
        LET ambient == Range(runs[i].host.environ)
            clean == Range(runs[i].nspawn_env)
        IN  /\ clean = {e \in ambient : ~Reserved(e[1])}
            /\ Len(runs[i].nspawn_env) = Cardinality(clean)

C16_Witness ==
    \E i \in OkRuns :
        /\ runs[i].host.environ =
               << <<<<"SYSTEMD_", "NSPAWN_", "FOO">>, "bar">>,
                  <<<<"HOME">>, "/x">> >>
        /\ runs[i].nspawn_env = << <<<<"HOME">>, "/x">> >>

\* The key of a K=V entry: what stands before its first "=".
KeyOf(entry) ==
    LET eq == CHOOSE n \in DOMAIN entry :
                  /\ entry[n] = "="
                  /\ \A m \in 1..(n - 1) : entry[m] # "="
    IN  SubSeq(entry, 1, eq - 1)

\* C17: in cmd_env every forwarded host variable precedes every setenv
\* entry and the setenv entries keep their configured order, so for a key
\* that is both forwarded and set explicitly the last assignment, which
\* wins, is the explicit one.
C17_SetenvOverridesForwarded ==
    \A i \in OkRuns :
        LET env == runs[i].cmd_env
            n == Len(env) - Len(kwargs.setenv)
            forwarded == {e[1] \o <<"=", e[2]>> :
                             e \in {x \in Range(runs[i].host.environ) :
                                       /\ Len(x[1]) >= 2
                                       /\ x[1][1] = "THRIFT_"
                                       /\ x[1][2] = "TLS_"}}
        IN  /\ n >= 0
            /\ SubSeq(env, n + 1, Len(env)) = kwargs.setenv
            /\ \A m \in 1..n : env[m] \in forwarded
            /\ \A s \in DOMAIN kwargs.setenv :
                   \E last \in (n + 1)..Len(env) :
                       /\ KeyOf(env[last]) = KeyOf(kwargs.setenv[s])
                       /\ \A m \in DOMAIN env :
                              KeyOf(env[m]) = KeyOf(env[last]) => m <= last

C17_Witness ==
    \E i \in OkRuns :
        /\ kwargs.debug_only_opts.forward_tls_env
        /\ kwargs.setenv = << <<"K", "=", "v">>,
                              <<"THRIFT_", "TLS_", "CERT", "=", "mine">> >>
        /\ runs[i].cmd_env =
               << <<"THRIFT_", "TLS_", "CERT", "=", "/c">> >> \o kwargs.setenv

\* The places of an argument vector that hold the flag.
Places(argv, flag) == {n \in DOMAIN argv : argv[n] = <<flag>>}

\* C18: the argument vector holds --drop-capability=CAP_MKNOD if and only
\* if allow_mknod is false; with the default options it is there.
C18_MknodDropped ==
    \A i \in OkRuns :
        LET places == Places(runs[i].nspawn_cmd, "--drop-capability=CAP_MKNOD")
        IN  /\ places # {} <=> ~kwargs.allow_mknod
            /\ Cardinality(places) <= 1
            /\ kwargs = NspawnOpts(kwargs.cmd) => places # {}

C18_Witness ==
    /\ Len(runs) = 2
    /\ OkRuns = {1, 2}
    /\ kwargs.allow_mknod
    /\ kwargs.debug_only_opts.cap_net_admin
    /\ Places(runs[2].nspawn_cmd, "--drop-capability=CAP_MKNOD") = {}

\* C19: with the debug-only options at their defaults the argument vector
\* holds --private-network and not --capability=CAP_NET_ADMIN; each of the
\* two flags is there exactly when its debug-only toggle is set.
C19_NetworkFlags ==
    \A i \in OkRuns :
        LET private == Places(runs[i].nspawn_cmd, "--private-network")
            admin == Places(runs[i].nspawn_cmd, "--capability=CAP_NET_ADMIN")
        IN  /\ private # {} <=> kwargs.debug_only_opts.private_network
            /\ admin # {} <=> kwargs.debug_only_opts.cap_net_admin
            /\ kwargs.debug_only_opts = NspawnDebugOnlyNotForProdOpts
                   => private # {} /\ admin = {}

C19_Witness ==
    /\ OkRuns # {}
    /\ kwargs.debug_only_opts = NspawnDebugOnlyNotForProdOpts
    /\ kwargs.hostname # None
    /\ Places(runs[1].nspawn_cmd, "--private-network") # {}
    /\ Places(runs[1].nspawn_cmd, "--capability=CAP_NET_ADMIN") = {}

Phase(pos) ==
    CASE pos \in {"unstarted", "snapshot_into", "tmp_snapshot",
                  "clone_mounts"} -> 0
      [] pos = "build_args" -> 1
      [] pos = "running" -> 2
      [] pos \in {"tmp_exit", "leave"} -> 3
      [] pos = "released" -> 4

\* How far an invocation has got in _nspawn_setup.
Rank(pos) ==
    CASE pos = "unstarted" -> 0
      [] pos \in {"snapshot_into", "tmp_snapshot"} -> 1
      [] pos = "clone_mounts" -> 2
      [] pos = "build_args" -> 3
      [] pos = "running" -> 4
      [] pos = "tmp_exit" -> 5
      [] pos = "leave" -> 6
      [] pos = "released" -> 7

\* C21 as stated: every step of an invocation stays in its lifecycle state
\* or moves to the next one; no state is skipped.
C21_NoStateSkipped ==
    [][\A i \in Invocations :
          Phase(spc'[i]) \in {Phase(spc[i]), Phase(spc[i]) + 1}]_vars

\* C21: an invocation never goes back to an earlier lifecycle state and
\* skips states only to go to Failed when a step raises; the container
\* runs only in an acquired subvolume, a snapshot is deleted only once the
\* scope has ended, and Released follows SnapshotAcquired on every path:
\* every step takes the invocation further and one is possible until it
\* is released.
C21_Lifecycle ==
    /\ [][\A i \in Invocations :
             \/ Phase(spc'[i]) \in {Phase(spc[i]), Phase(spc[i]) + 1}
             \/ /\ Phase(spc[i]) < 3
                /\ Phase(spc'[i]) = 3
                /\ sexc'[i] # "none"]_vars
    /\ [](\A i \in Invocations :
             Phase(spc[i]) \in {1, 2} => nspawn_subvol[i] \in subvols)
    /\ [][\A i \in Invocations :
             (subvols' # subvols /\ nspawn_subvol[i] \in subvols \ subvols')
                 => spc[i] = "tmp_exit"]_vars
    /\ [][\A i \in Invocations :
             spc'[i] # spc[i] => Rank(spc'[i]) > Rank(spc[i])]_vars
    /\ [](\A i \in Invocations :
             spc[i] # "released" => ENABLED SetupStep(i))

\* An invocation whose command line could not be composed was released at
\* once, while another one ran its container in its snapshot and ended.
C21_Witness ==
    \E i, j \in Invocations :
        /\ spc[i] = "released" /\ sexc[i] = "BuildError"
        /\ spc[j] = "released" /\ outcome[j] = "completed"
        /\ nspawn_subvol[j] = TmpPath(j)

\* C22: when the snapshot or clone_mounts fails, the failure reaches the
\* caller with no second attempt and, once the invocation has been left,
\* nothing it had acquired is left behind, in either snapshot mode.
C22_FailedAcquisitionCleaned ==
    \A i \in Invocations :
        (spc[i] = "released" /\ sexc[i] = "SnapshotError")
            => /\ outcome[i] = "failed"
               /\ TmpPath(i) \notin subvols
               /\ IntoPath(i) \notin subvols

\* C23: when a bind fails or a server cannot be started after the handoff
\* has delivered the sockets, then, once the failure has propagated, every
\* server that was started has been killed and reaped before its socket
\* was closed and no received socket is still open in the orchestrator.
C23_FailureClosesAllSockets ==
    (pc = "done" /\ fail \in {"bind", "spawn"}) =>
        /\ \A b \in Started : srv[b] = "reaped" /\ b \in Range(kill_log)
        /\ \A n \in DOMAIN repo_server_socks :
               sock_state[repo_server_socks[n]] = "closed"

\* C24: the builder never fails on options that validation accepted,
\* whatever the layer's metadata and the shape of the mount lists.
C24_BuilderNeverFails ==
    \A i \in DOMAIN runs : runs[i].status = "ok"

Ephemeral(i) == opts[i].snapshot /\ ~opts[i].snapshot_into

C26_BindBeforeStart ==
    /\ [](\A b \in Started :
             /\ sock_state[ZipSock(b)] \in {"bound", "closed"}
             /\ sock_port[ZipSock(b)] = ZipPort(b))
    /\ [](fail = "bind" => k \notin Started)
    /\ [][\A s \in SockIds :
             (sock_listen'[s] /\ ~sock_listen[s])
                 => /\ UNCHANGED orch_vars
                    /\ \E b \in Started : srv[b] = "running" /\ s \in srv_fds[b]]_vars

\* Every pair was bound to its port and served, and the servers listen.
C26_Witness ==
    /\ Len(start_log) = NumPorts
    /\ \A b \in Started :
           /\ srv[b] = "running"
           /\ sock_state[ZipSock(b)] = "bound"
           /\ sock_port[ZipSock(b)] = ZipPort(b)
           /\ sock_listen[ZipSock(b)]

\* C27: the caller's body runs only when the socket of every server of the
\* batch listens, and a pair is bound and started only once the readiness
\* wait of every earlier pair has ended.
C27_BodyAfterAllReady ==
    /\ body = "running" =>
           \A b \in 1..num_socks : sock_listen[ZipSock(b)]
    /\ \A b \in Started : \A a \in 1..(b - 1) : a \in Range(stack)
                                                 \/ pc \in {"unwind",
                                                            "unwind_wait",
                                                            "unwind_close",
                                                            "done"}

\* The processes, other than the orchestrator, that hold a descriptor of
\* socket s: the helper (0) while it runs, and the servers (the number of
\* their binding) it was passed to.
OtherHolders(s) ==
    (IF hpc \notin {"unspawned", "exited"} /\ s <= hcreated
     THEN {0} ELSE {})
    \cup {b \in SockIds : s \in srv_fds[b]}

\* C28: once the handoff has returned its sockets, the helper has exited
\* and been reaped, the rendezvous endpoint and connection are closed, and
\* nobody but the orchestrator holds one of the sockets until it passes
\* them to the servers it starts.
C28_HelperGoneAfterHandoff ==
    handoff = "returned" =>
        /\ hpc = "exited" /\ helper_reaped /\ hrc = 0
        /\ list_sock = "closed" /\ csock # "open"
        /\ Len(repo_server_socks) = num_socks
        /\ \A n \in DOMAIN repo_server_socks :
               OtherHolders(repo_server_socks[n]) \subseteq Started

\* The handoff has just returned NumPorts sockets; none has been passed on.
C28_Witness ==
    /\ handoff = "returned"
    /\ pc = "bind" /\ k = 1 /\ start_log = <<>>
    /\ Len(repo_server_socks) = NumPorts
    /\ \A n \in DOMAIN repo_server_socks :
           OtherHolders(repo_server_socks[n]) = {}

\* C29: an invocation with snapshot disabled makes no snapshot and clones
\* no mounts, hands the layer itself to the runtime, and none of its
\* steps, teardown included, creates or deletes a subvolume.
C29_NoSnapshotRunsInLayer ==
    /\ [](\A i \in Invocations :
             ~opts[i].snapshot =>
                 /\ spc[i] \in {"unstarted", "build_args", "running",
                                "leave", "released"}
                 /\ nspawn_subvol[i] \in {<<>>, Layer}
                 /\ spc[i] \in {"build_args", "running"}
                        => nspawn_subvol[i] = Layer
                 /\ tmp_subvols[i] = {})
    /\ [][\A i \in Invocations :
             (~opts[i].snapshot /\ spc'[i] # spc[i])
                 => subvols' = subvols]_vars

\* An invocation with snapshot disabled ran in the layer and was released.
C29_Witness ==
    \E i \in Invocations :
        /\ ~opts[i].snapshot
        /\ spc[i] = "released"
        /\ outcome[i] = "command_failed"
        /\ nspawn_subvol[i] = Layer
        /\ Layer \in subvols

\* The places where an argument vector holds the flag followed by value.
PlacesOfPair(argv, flag, value) ==
    {n \in 1..(Len(argv) - 1) : argv[n] = <<flag>> /\ argv[n + 1] = value}

\* C30: the argument vector holds --bind-ro of the resolved repo root onto
\* the same path if and only if bind_repo_ro is set or the layer's metadata
\* says its artifacts may require the repo; the unresolved path is never
\* mounted.
C30_RepoMount ==
    \A i \in OkRuns :
        LET argv == runs[i].nspawn_cmd
            resolved == PlacesOfPair(argv, "--bind-ro",
                                     RepoRoot \o <<":">> \o RepoRoot)
        IN  /\ resolved # {} <=>
                   (kwargs.bind_repo_ro \/ runs[i].host.may_require_repo = "1")
            /\ Cardinality(resolved) <= 1
            /\ \A n \in DOMAIN argv :
                   \A m \in DOMAIN argv[n] : argv[n][m] # RepoLink[1]

C30_Witness ==
    \E i \in OkRuns :
        /\ ~kwargs.bind_repo_ro
        /\ runs[i].host.may_require_repo = "1"
        /\ runs[i].host.repo_symlink
        /\ PlacesOfPair(runs[i].nspawn_cmd, "--bind-ro",
                        RepoRoot \o <<":">> \o RepoRoot) # {}

\* C31: the argument vector holds --bind-ro of /dev/null onto
\* /usr/lib/os-release if and only if the subvolume has neither
\* /usr/lib/os-release nor /etc/os-release, and no step of the builder
\* changes which of the two files the subvolume has.
C31_OsReleasePlaceholder ==
    /\ [](\A i \in OkRuns :
             PlacesOfPair(runs[i].nspawn_cmd, "--bind-ro",
                          <<"/dev/null", ":", "/usr/lib/os-release">>) # {}
                 <=> /\ "/usr/lib/os-release" \notin runs[i].host.os_release
                     /\ "/etc/os-release" \notin runs[i].host.os_release)
    /\ [][host'.os_release = host.os_release]_vars

\* A subvolume that has /etc/os-release only gets no placeholder.
C31_Witness ==
    \E i \in OkRuns :
        /\ runs[i].host.os_release = {"/etc/os-release"}
        /\ PlacesOfPair(runs[i].nspawn_cmd, "--bind-ro",
                        <<"/dev/null", ":", "/usr/lib/os-release">>) = {}

\* What a reader of a mount argument gets back: the argument cut at every
\* ':' that no backslash precedes, each backslash giving the byte after it.
RECURSIVE Fields(_, _)
Fields(arg, cur) ==
    IF arg = <<>> THEN <<cur>>
    ELSE IF Head(arg) = "\\" /\ Len(arg) >= 2
         THEN Fields(Tail(Tail(arg)), Append(cur, arg[2]))
    ELSE IF Head(arg) = ":"
         THEN <<cur>> \o Fields(Tail(arg), <<>>)
    ELSE Fields(Tail(arg), Append(cur, Head(arg)))

\* The ':' and '\' of a path.
Specials(path) == {n \in DOMAIN path : path[n] \in {":", "\\"}}

\* The mounts of the options, with the flag each is emitted under.
Mounts ==
    [n \in 1..Len(kwargs.bindmount_rw) |->
        <<"--bind", kwargs.bindmount_rw[n]>>]
    \o [n \in 1..Len(kwargs.bindmount_ro) |->
        <<"--bind-ro", kwargs.bindmount_ro[n]>>]

\* C32: for every host path and guest path of a configured mount the
\* argument vector holds, after the mount's flag, an argument that is one
\* backslash longer than the two paths and their separator for each ':' and
\* '\' of the paths, that has exactly one unescaped ':', and whose two
\* halves un-escape to the host path and the guest path.
C32_QuoteRoundTrip ==
    \A i \in OkRuns : \A m \in DOMAIN Mounts :
        \E n \in Places(runs[i].nspawn_cmd, Mounts[m][1]) :
            LET arg == runs[i].nspawn_cmd[n + 1]
                src == Mounts[m][2][1]
                dest == Mounts[m][2][2]
            IN  /\ Len(arg) = Len(src) + Len(dest) + 1
                              + Cardinality(Specials(src))
                              + Cardinality(Specials(dest))
                /\ Fields(arg, <<>>) = <<src, dest>>

\* A mount whose host path holds a '\' and whose guest path holds a ':'.
C32_Witness ==
    \E i \in OkRuns : \E m \in DOMAIN Mounts :
        /\ \E n \in DOMAIN Mounts[m][2][1] : Mounts[m][2][1][n] = "\\"
        /\ \E n \in DOMAIN Mounts[m][2][2] : Mounts[m][2][2][n] = ":"

\* The tmpfs argument the claim describes, for a user.
LogsMount(user) ==
    <<"--tmpfs=/logs:", "uid=", Str(user.pw_uid), ",",
      "gid=", Str(user.pw_gid), ",", "mode=0755", ",",
      "nodev", ",", "nosuid", ",", "noexec">>

\* The arguments that mount a tmpfs at /logs.
LogsPlaces(argv) ==
    {n \in DOMAIN argv : StartsWith(argv[n], <<"--tmpfs=/logs:">>)}

\* C33: when logs_tmpfs is enabled the argument vector holds exactly one
\* tmpfs mount at /logs, with the uid and gid of the options' user, mode
\* 0755, nodev, nosuid and noexec; when it is disabled it holds none; the
\* default options enable it with user nobody.
C33_LogsTmpfs ==
    /\ \A i \in OkRuns :
          LET argv == runs[i].nspawn_cmd
          IN  IF kwargs.debug_only_opts.logs_tmpfs
              THEN /\ Cardinality(LogsPlaces(argv)) = 1
                   /\ \A n \in LogsPlaces(argv) :
                          argv[n] = LogsMount(kwargs.user)
              ELSE LogsPlaces(argv) = {}
    /\ \A i \in OkRuns :
          kwargs = NspawnOpts(<<"sh">>)
              => \E n \in DOMAIN runs[i].nspawn_cmd :
                     runs[i].nspawn_cmd[n] = LogsMount(NOBODY_USER)

\* A run for root with the tmpfs mount.
C33_Witness ==
    \E i \in OkRuns :
        /\ kwargs.debug_only_opts.logs_tmpfs
        /\ kwargs.user = ROOT_USER
        /\ LogsPlaces(runs[i].nspawn_cmd) # {}

\* The ambient variables whose name starts with THRIFT_TLS_, as K=V.
TlsEntries(environ) ==
    {e[1] \o <<"=", e[2]>> :
        e \in {x \in Range(environ) :
                  /\ Len(x[1]) >= 2
                  /\ x[1][1] = "THRIFT_"
                  /\ x[1][2] = "TLS_"}}

\* C34: with forward_tls_env disabled, as it is by default, cmd_env is the
\* setenv list exactly; with it enabled cmd_env is the setenv list preceded
\* by one entry for each ambient variable whose name starts with
\* THRIFT_TLS_ and by nothing else.
C34_OnlyTlsForwarded ==
    /\ ~NspawnOpts(<<"sh">>).debug_only_opts.forward_tls_env
    /\ \A i \in OkRuns :
          LET env == runs[i].cmd_env
              n == Len(env) - Len(kwargs.setenv)
          IN  IF kwargs.debug_only_opts.forward_tls_env
              THEN /\ n = Cardinality(TlsEntries(runs[i].host.environ))
                   /\ {env[m] : m \in 1..n}
                          = TlsEntries(runs[i].host.environ)
                   /\ SubSeq(env, n + 1, Len(env)) = kwargs.setenv
              ELSE env = kwargs.setenv

\* Forwarding is disabled while the host has a THRIFT_TLS_ variable and the
\* options a setenv entry.
C34_Witness ==
    \E i \in OkRuns :
        /\ ~kwargs.debug_only_opts.forward_tls_env
        /\ TlsEntries(runs[i].host.environ) # {}
        /\ kwargs.setenv # <<>>
        /\ runs[i].cmd_env = kwargs.setenv

\* C38: the argument vector holds, in one run of flag pairs, a --bind pair
\* for each read-write mount in configured order followed by a --bind-ro
\* pair for each read-only mount in configured order; it holds no other
\* --bind, and every other --bind-ro is the os-release placeholder before
\* the run or the repository bind after it.
C38_OnePairPerMount ==
    \A i \in OkRuns :
        LET argv == runs[i].nspawn_cmd
            M == Mounts
        IN  \E p \in 1..(Len(argv) + 1) :
                LET slice == p..(p + 2 * Len(M) - 1)
                IN  /\ p + 2 * Len(M) - 1 <= Len(argv)
                    /\ \A m \in DOMAIN M :
                          /\ argv[p + 2 * (m - 1)] = <<M[m][1]>>
                          /\ Fields(argv[p + 2 * (m - 1) + 1], <<>>) = M[m][2]
                    /\ Places(argv, "--bind") \subseteq slice
                    /\ \A n \in Places(argv, "--bind-ro") \ slice :
                          \/ /\ n < p
                             /\ argv[n + 1]
                                  = <<"/dev/null", ":", "/usr/lib/os-release">>
                          \/ /\ n > p + 2 * Len(M) - 1
                             /\ \/ kwargs.bind_repo_ro
                                \/ runs[i].host.may_require_repo = "1"
                             /\ Fields(argv[n + 1], <<>>)[1]
                                  = Fields(argv[n + 1], <<>>)[2]

\* A run with a read-write and a read-only mount.
C38_Witness ==
    \E i \in OkRuns :
        /\ kwargs.bindmount_rw # <<>>
        /\ kwargs.bindmount_ro # <<>>
        /\ Places(runs[i].nspawn_cmd, "--bind") # {}

\* The sockets bound to a port, and the servers started on such a socket.
BoundTo(port) == {s \in SockIds : sock_port[s] = port}

ServersOf(port) ==
    {b \in SockIds : srv[b] # "none" /\ srv_fds[b] \cap BoundTo(port) # {}}

\* C39: the number of sockets requested is the number of distinct ports in
\* the repo_server_ports file; no two sockets are bound to the same port
\* and no two servers serve the same port; and once every pair has been set
\* up each distinct port is bound by exactly one socket and served by
\* exactly one server, and each socket received is bound to a port of the
\* file.
C39_SocketsPairPorts ==
    /\ pc # "read_ports" /\ fail # "read_ports"
          => num_socks = Cardinality(Range(ports_file))
    /\ \A port \in Ports :
          /\ Cardinality(BoundTo(port)) <= 1
          /\ Cardinality(ServersOf(port)) <= 1
    /\ \A s \in SockIds : sock_port[s] # 0 => sock_port[s] \in Range(ports_file)
    /\ body # "none"
          => /\ \A port \in Range(ports_file) :
                   /\ Cardinality(BoundTo(port)) = 1
                   /\ Cardinality(ServersOf(port)) = 1
             /\ \A s \in Range(repo_server_socks) :
                   /\ sock_port[s] \in Range(ports_file)
                   /\ \E b \in SockIds : srv_fds[b] = {s}
             /\ Len(repo_server_socks) = Cardinality(Range(ports_file))

\* A file that repeats its one port: one socket, one server.
C39_Witness ==
    /\ Len(ports_file) = 2
    /\ Cardinality(Range(ports_file)) = 1
    /\ body = "running"
    /\ Len(repo_server_socks) = 1

\* The positions of the orchestrator inside _create_sockets_inside_netns.
HandoffPcs ==
    {"listen_unix", "popen_helper", "connect", "recvmsg", "make_socks",
     "assert_len", "wait_helper", "close_listen", "check_rc"}

LeftAfterYield ==
    {i \in Invocations :
        tpc[i] = "left" /\ td[i] # "" /\ texc[i] \in {"none", "BodyError"}}

\* C36: once the context of temp_repos_steps has been left, the directory
\* it yielded does not exist, whether the body returned or raised.
C36_TempDirGone ==
    \A i \in LeftAfterYield : td[i] \notin tmp_dirs

C35_OneLaunchPath ==
    /\ Len(launches) <= Len(runs)
    /\ \A n \in DOMAIN launches :
          /\ launches[n].run = n
          /\ launches[n].via \in {"popen_and_inject_fds_after_sudo", "popen"}
          /\ launches[n].via = "popen_and_inject_fds_after_sudo"
                 <=> Len(kwargs.forward_fd) > 0
          /\ launches[n].via = "popen_and_inject_fds_after_sudo"
                 => launches[n].fds = kwargs.forward_fd

\* A launch with descriptor 0 as the only forwarded descriptor.
C35_Witness ==
    \E n \in DOMAIN launches :
        /\ kwargs.forward_fd = <<0>>
        /\ launches[n].via = "popen_and_inject_fds_after_sudo"

====
